---- MODULE Spec2Model ----
(***************************************************************************)
(* CDGram: the authenticated, encrypted datagram transport of entangle     *)
(* (src/cdgram/src/lib.rs) with its handshake coroutine and the coroutine  *)
(* driver (src/cdgram/src/generator.rs).                                   *)
(*                                                                         *)
(* Datagrams are byte strings.  A byte string is modelled as a sequence of *)
(* blocks, every block standing for a run of bytes of a known length: a    *)
(* public key, 32 random bytes, a nonce, a ciphertext, or arbitrary bytes  *)
(* (junk).  The code reads datagrams by byte offsets; Slice does the same  *)
(* on blocks.  The primitives of libsodium are modelled symbolically: a    *)
(* box opens under the shared key of the two key pairs that sealed it, a   *)
(* session key is a hash of the Diffie-Hellman secret and the two key      *)
(* exchange public keys.                                                   *)
(***************************************************************************)
EXTENDS Integers, Sequences, FiniteSets, TLC

(***************************************************************************)
(* Bounds of the model.                                                    *)
(***************************************************************************)
\* random draws in all on the untrusted network: a handshake of the server
\* that gets past the first packet, a connect of the client and a payload
\* sealed by either side are one draw each
MaxDraws == 2
\* the same on the channel of MockSocket
MaxFifoDraws == 4
\* the same on the network that loses, repeats and garbles datagrams
MaxLossyDraws == 5
\* datagrams in flight in each direction on the channel of MockSocket
MaxQueue == 2
\* yield points of the generator of the test of the driver
MaxYields == 3
\* the same as MaxDraws for the two daemons on a network that loses,
\* repeats and garbles
MaxDaemonDraws == 5
MaxDevicesDraws == 6
\* the same with a server that has nothing to send (network "idle")
MaxIdleDraws == 7
\* the same with a client that cannot create its devices (network "restart")
MaxRestartDraws == 9
\* device ids the registry of the server daemon takes (0 .. MaxDevices - 1)
MaxDevices == 1
\* control messages waiting in the channel of the main loop
MaxControl == 1
\* blocks of the bit sets the codec is tried on
MaxBlocks == 2
\* clients in active_clients when the locks are followed
MaxLockClients == 2
\* devices evdev::enumerate finds, and devices known at once, when the
\* registry is followed alone
MaxEnumerated == 2

(***************************************************************************)
(* Sizes of libsodium, as named in src/cdgram/src/lib.rs.                  *)
(***************************************************************************)
BOXPK == 32
KXPK == 32
CH == 32
NONCE == 24
MAC == 16
\* length of the payloads of the scenarios ([1,2,3,4,5])
PayloadLen == 5
\* the milliseconds run of the client waits for a packet: with no Ping
\* pending, and after a Ping (daemon/src/client.rs)
IdleWait == 1000
PongWait == 200
\* bytes of a block of a FixedBitSet, a u32 (daemon/src/proto.rs)
BlockBytes == 4

ServerAddr == "sa"
ClientAddr == "ca"
\* an address only the attacker sends from
OtherAddr == "xa"
Addrs == {ClientAddr, OtherAddr}
Payloads == {"p", "q"}

(***************************************************************************)
(* Blocks of bytes.                                                        *)
(***************************************************************************)
\* the long-term public key of identity id ("S", "C": the authorized
\* client, "E": a key pair of the attacker)
PK(id) == [t |-> "pk", id |-> id]
\* the public key of the ephemeral key exchange pair k
KxPk(k) == [t |-> "kxpk", k |-> k]
\* 32 random bytes drawn as challenge k
Chal(k) == [t |-> "rand32", k |-> k]
\* a random nonce
Nonce(k) == [t |-> "nonce", k |-> k]
\* n arbitrary bytes
Junk(n) == [t |-> "junk", len |-> n]
\* an application payload in clear
Data(p) == [t |-> "data", p |-> p]
\* box_::seal(m, n, pk, sk), key the shared key of pk and sk; by is the
\* party that sealed it, which the bytes do not tell
Box(m, n, key, by) == [t |-> "box", m |-> m, n |-> n, key |-> key, by |-> by]
\* aead::seal(m, None, n, key)
Aead(m, n, key) == [t |-> "aead", m |-> m, n |-> n, key |-> key]

RECURSIVE PLen(_)
BLen(b) ==
    CASE b.t \in {"pk", "kxpk", "rand32"} -> 32
      [] b.t = "nonce" -> NONCE
      [] b.t = "junk" -> b.len
      [] b.t = "data" -> PayloadLen
      [] b.t \in {"box", "aead"} -> PLen(b.m) + MAC

\* buf.len()
PLen(p) == IF p = <<>> THEN 0 ELSE BLen(Head(p)) + PLen(Tail(p))

RECURSIVE Aligned(_, _, _)
\* the blocks of p that cover bytes [a, b) exactly; ok is FALSE when the
\* range cuts through a block or runs past the end
Aligned(p, a, b) ==
    IF a = b THEN [ok |-> TRUE, s |-> <<>>]
    ELSE IF p = <<>> THEN [ok |-> FALSE, s |-> <<>>]
    ELSE LET l == BLen(Head(p)) IN
         IF a >= l THEN Aligned(Tail(p), a - l, b - l)
         ELSE IF a = 0 /\ b >= l
              THEN LET r == Aligned(Tail(p), 0, b - l) IN
                   [ok |-> r.ok, s |-> <<Head(p)>> \o r.s]
         ELSE [ok |-> FALSE, s |-> <<>>]

\* &buf[a..b], for 0 <= a <= b <= buf.len(): the blocks when the range
\* falls on block boundaries, b - a arbitrary bytes otherwise
Slice(p, a, b) ==
    LET r == Aligned(p, a, b) IN
    IF r.ok THEN r.s ELSE <<Junk(b - a)>>

\* Key::from_slice / Nonce::from_slice of a slice of the right length: the
\* value those bytes are
FromSlice(s) == IF Len(s) = 1 THEN s[1] ELSE Junk(PLen(s))

(***************************************************************************)
(* Symbolic libsodium.                                                     *)
(***************************************************************************)
\* the key box_ precomputes from a public key and the secret key of owner
BoxKey(pk, owner) == {pk, PK(owner)}

box_seal(m, n, pk, owner) == Box(m, n, BoxKey(pk, owner), owner)

\* box_::open: <<plaintext>> on success, <<>> on failure
box_open(c, n, pk, owner) ==
    IF Len(c) = 1 /\ c[1].t = "box" /\ c[1].n = n /\ c[1].key = BoxKey(pk, owner)
    THEN <<c[1].m>> ELSE <<>>

aead_seal(m, n, key) == Aead(m, n, key)

\* aead::open: <<plaintext>> on success, <<>> on failure
aead_open(c, n, key) ==
    IF Len(c) = 1 /\ c[1].t = "aead" /\ c[1].n = n /\ c[1].key = key
    THEN <<c[1].m>> ELSE <<>>

\* one half of BLAKE2b(q || client_pk || server_pk), q the Diffie-Hellman
\* secret of the two key exchange key pairs
SessionKey(half, q, cpk, spk) ==
    [t |-> "skey", half |-> half, q |-> q, c |-> cpk, s |-> spk]

\* kx::client_session_keys(client_pk, client_sk, server_pk): rx is the
\* first half of the hash and tx the second
client_session_keys(k, server_kx_pk) ==
    LET q == {KxPk(k), server_kx_pk} IN
    [rx |-> SessionKey(0, q, KxPk(k), server_kx_pk),
     tx |-> SessionKey(1, q, KxPk(k), server_kx_pk)]

\* a server that takes the halves of the hash as the client does
server_session_keys_as_client(k, client_kx_pk) ==
    LET q == {KxPk(k), client_kx_pk} IN
    [rx |-> SessionKey(0, q, client_kx_pk, KxPk(k)),
     tx |-> SessionKey(1, q, client_kx_pk, KxPk(k))]

\* kx::server_session_keys(server_pk, server_sk, client_pk): rx is the
\* second half of the hash and tx the first
server_session_keys(k, client_kx_pk) ==
    LET q == {KxPk(k), client_kx_pk} IN
    [rx |-> SessionKey(1, q, client_kx_pk, KxPk(k)),
     tx |-> SessionKey(0, q, client_kx_pk, KxPk(k))]

(***************************************************************************)
(* The coroutine driver (generator.rs) and the handshake coroutine.        *)
(***************************************************************************)
\* (CHOOSE y \in {F(v) : v \in {x}} : TRUE is F(x) with x computed once.)
\* Option: None is <<>>, Some(x) is <<x>>
None == <<>>
Some(x) == <<x>>

\* GeneratorStateInner
CellNone == [c |-> "None", v |-> <<>>]
CellYielded(v) == [c |-> "Yielded", v |-> v]
CellFed(v) == [c |-> "Fed", v |-> v]

\* a generator state that takes a value it yielded itself for a value fed
take_fed_any(cell) ==
    IF cell.c \in {"Fed", "Yielded"} THEN [v |-> Some(cell.v), cell |-> CellNone]
    ELSE [v |-> None, cell |-> cell]

\* GeneratorStateInner::take_fed: the value (an Option) and the cell left
take_fed(cell) ==
    IF cell.c = "Fed" THEN [v |-> Some(cell.v), cell |-> CellNone]
    ELSE [v |-> None, cell |-> cell]

\* GeneratorStateInner::take_yielded
take_yielded(cell) ==
    IF cell.c = "Yielded" THEN [v |-> Some(cell.v), cell |-> CellNone]
    ELSE [v |-> None, cell |-> cell]

\* what the handshake keeps across its suspension points
NoLocals == [client_pk |-> Junk(0), client_kx_pk |-> Junk(0), j |-> 0]

\* Generator::new: the future is still the closure (Func); pc is the
\* suspension point of the handshake future once it exists
Generator_new ==
    [future |-> "Func", cell |-> CellNone, pc |-> "entry", loc |-> NoLocals]

\* results of the handshake
HsOk(keys) == [ok |-> TRUE, keys |-> keys, err |-> ""]
HsErr(e) == [ok |-> FALSE, keys |-> [rx |-> Junk(0), tx |-> Junk(0)], err |-> e]

Pending(g) == [g |-> g, ready |-> FALSE, val |-> HsErr(""), panic |-> FALSE]
Ready(g, v) == [g |-> [g EXCEPT !.pc = "returned"], ready |-> TRUE, val |-> v,
                panic |-> FALSE]

\* a handshake that takes first packets of one byte more
FirstPacketLenOneMore == KXPK + BOXPK + CH + 1

\* the length of the first packet
FirstPacketLen == KXPK + BOXPK + CH

\* the first packet, from the suspension at yield_(None) on
handshake_pkt1(g, our_sk, j, pkt) ==
    IF PLen(pkt) # FirstPacketLen
    THEN Ready(g, HsErr("Malformed initial handshake packet"))
    ELSE LET client_pk == FromSlice(Slice(pkt, 0, BOXPK))
             client_kx_pk == FromSlice(Slice(pkt, BOXPK, BOXPK + KXPK))
             nonce == Nonce(<<"s", j>>)
             response == box_seal(Slice(pkt, KXPK + BOXPK, PLen(pkt)), nonce,
                                  client_pk, our_sk)
             challenge == <<Chal(<<"s", j>>)>>
             send == challenge \o <<KxPk(<<"s", j>>), nonce, response>>
         IN  \* s.yield_(Some(send)), and the poll of the yield finds the
             \* cell Yielded
             Pending([g EXCEPT !.cell = CellYielded(Some(send)),
                               !.pc = "await3",
                               !.loc = [client_pk |-> client_pk,
                                        client_kx_pk |-> client_kx_pk,
                                        j |-> j]])

\* a handshake that takes any box that opens for the answer
handshake_pkt3_unchecked(g, our_sk, pkt) ==
    IF PLen(pkt) # CH + MAC + NONCE
    THEN Ready(g, HsErr("Malformed "))
    ELSE LET nonce == FromSlice(Slice(pkt, 0, NONCE))
             response == box_open(Slice(pkt, NONCE, PLen(pkt)), nonce,
                                  g.loc.client_pk, our_sk)
         IN  IF response = <<>>
             THEN Ready(g, HsErr("Client failed challenge"))
             ELSE Ready(g, HsOk(server_session_keys(<<"s", g.loc.j>>,
                                                    g.loc.client_kx_pk)))

\* the second packet of the client, from the suspension at
\* yield_(Some(send)) on
handshake_pkt3(g, our_sk, pkt) ==
    IF PLen(pkt) # CH + MAC + NONCE
    THEN Ready(g, HsErr("Malformed "))
    ELSE LET nonce == FromSlice(Slice(pkt, 0, NONCE))
             response == box_open(Slice(pkt, NONCE, PLen(pkt)), nonce,
                                  g.loc.client_pk, our_sk)
             challenge == <<Chal(<<"s", g.loc.j>>)>>
         IN  IF response = <<>>
             THEN Ready(g, HsErr("Client failed challenge"))
             ELSE IF response[1] # challenge
             THEN Ready(g, HsErr("Client response doesn't match the challenge"))
             ELSE Ready(g, HsOk(server_session_keys(<<"s", g.loc.j>>,
                                                    g.loc.client_kx_pk)))

\* one poll of the future of handshake(our_sk, s); j names the randomness
\* it draws when it gets that far
handshake(g, our_sk, j) ==
    CASE g.pc = "entry" ->
           \* s.yield_(None), and the poll of the yield finds the cell Yielded
           Pending([g EXCEPT !.cell = CellYielded(None), !.pc = "await1"])
      [] g.pc = "await1" ->
           LET f == take_fed(g.cell) IN
           IF f.v = None THEN Pending(g)
           ELSE handshake_pkt1([g EXCEPT !.cell = f.cell], our_sk, j, f.v[1])
      [] g.pc = "await3" ->
           LET f == take_fed(g.cell) IN
           IF f.v = None THEN Pending(g)
           ELSE handshake_pkt3([g EXCEPT !.cell = f.cell], our_sk, f.v[1])
      [] OTHER ->
           \* a future polled after it returned
           [g |-> g, ready |-> FALSE, val |-> HsErr(""), panic |-> TRUE]

\* the values the test feeds
FeedValues == 0 .. 2

RECURSIVE Sum(_)
\* a + b of the generator of the test, for any number of values
Sum(q) == IF q = <<>> THEN 0 ELSE Head(q) + Sum(Tail(q))

\* Generator::new(read), for the generator read of the test with n yield
\* points: got are the values its yields returned so far (a, b), k the
\* yield it is suspended at
Generator_new_read(n) ==
    [future |-> "Func", cell |-> CellNone, pc |-> "entry",
     loc |-> [n |-> n, k |-> 0, got |-> <<>>]]

RECURSIVE read_resume(_, _)
\* read resumes with the values got: it returns their sum, or yields once
\* more (yield_ stores the value in the cell) and the future of the yield
\* is polled, which takes a value fed from the cell when it finds one; the
\* test yields (), here the k-th yield yields k
read_resume(g, got) ==
    IF Len(got) < g.loc.n
    THEN LET f == take_fed(CellYielded(Len(got) + 1))
             h == [g EXCEPT !.cell = f.cell, !.pc = "yield",
                            !.loc = [@ EXCEPT !.k = Len(got) + 1,
                                              !.got = got]]
         IN  IF f.v = None THEN Pending(h)
             ELSE read_resume(h, Append(got, f.v[1]))
    ELSE Ready([g EXCEPT !.loc = [@ EXCEPT !.got = got]], Sum(got))

\* one poll of the future of read(c)
read(g) ==
    CASE g.pc = "entry" -> read_resume(g, <<>>)
      [] g.pc = "yield" ->
           LET f == take_fed(g.cell) IN
           IF f.v = None THEN Pending(g)
           ELSE read_resume([g EXCEPT !.cell = f.cell],
                            Append(g.loc.got, f.v[1]))
      [] OTHER ->
           \* a future polled after it returned
           [g |-> g, ready |-> FALSE, val |-> HsErr(""), panic |-> TRUE]

\* fut.poll: the future the generator was made with
poll_future(g, our_sk, j) ==
    IF "n" \in DOMAIN g.loc THEN read(g) ELSE handshake(g, our_sk, j)

\* Either: Left(v) or Right(v); panic marks a Rust panic
Left(g, v) == [g |-> g, side |-> "Left", left |-> v, right |-> HsErr(""),
               panic |-> FALSE]
Right(g, v) == [g |-> g, side |-> "Right", left |-> None, right |-> v,
                panic |-> FALSE]
Panicked(g) == [g |-> g, side |-> "Panic", left |-> None, right |-> HsErr(""),
                panic |-> TRUE]

\* Generator::turn_impl after the poll: y is what take_yielded finds
turn_impl_yielded(g, y) == Left([g EXCEPT !.cell = y.cell], y.v)

\* Generator::turn_impl on the result r of the poll of the future
turn_impl_polled(g, r) ==
    IF r.panic THEN Panicked(g)
    ELSE IF r.ready THEN Right(r.g, r.val)
    ELSE turn_impl_yielded(r.g, take_yielded(r.g.cell))

\* Generator::turn_impl
turn_impl(g, our_sk, j) ==
    IF g.future = "Func" THEN Panicked(g)
    ELSE CHOOSE y \in {turn_impl_polled(g, r) :
                           r \in {poll_future(g, our_sk, j)}} : TRUE

\* Turnable::start: Left(Option) or Right
start(g, our_sk, j) ==
    IF g.future = "Func"
    THEN turn_impl([g EXCEPT !.future = "Future"], our_sk, j)
    ELSE Left(g, None)

\* Turnable::turn: Left(v.unwrap()) or Right
turn_unwrap(r) ==
    IF r.side = "Left"
    THEN IF r.left = None THEN Panicked(r.g) ELSE Left(r.g, r.left[1])
    ELSE r

turn(g, feed, our_sk, j) ==
    CHOOSE y \in {turn_unwrap(r) :
                      r \in {turn_impl([g EXCEPT !.cell = CellFed(feed)],
                                       our_sk, j)}} : TRUE

(***************************************************************************)
(* CDGramServer.                                                           *)
(***************************************************************************)
\* AuthState, and the absence of an entry
Vacant == [st |-> "Vacant"]
Initiated(g) == [st |-> "Initiated", g |-> g]

\* a server that stores the pair the wrong way round
CompletedSwapped(rx, tx) == [st |-> "Completed", rx |-> tx, tx |-> rx]

Completed(rx, tx) == [st |-> "Completed", rx |-> rx, tx |-> tx]

\* CDGramServer::new: the keys of the server and the authorized set
ServerId == "S"
authorized_keys == {PK("C")}

\* what one turn of the loop of recv did: the map after it, the datagrams
\* it sent, and whether recv went on to the next datagram ("continue"),
\* returned Ok((addr, val)) ("ok"), returned Err ("err") or panicked
RecvOut(as, sent, res, val) ==
    [auth_states |-> as, sent |-> sent, res |-> res, val |-> val]

\* a server that starts a handshake for any key
FirstPacketAcceptedAnyKey(buf) == PLen(buf) >= BOXPK

\* the test of a datagram from an address with no entry
FirstPacketAccepted(buf) ==
    /\ PLen(buf) >= BOXPK
    /\ FromSlice(Slice(buf, 0, BOXPK)) \in authorized_keys

\* a server that tells the peer of the failure
HandshakeErrNotifying(as, addr) ==
    RecvOut([as EXCEPT ![addr] = Vacant],
            <<[dst |-> addr, pkt |-> <<Junk(1)>>]>>, "continue", <<>>)

\* a server that keeps the entries it has when a handshake fails
HandshakeErrKeeping(as, addr) == RecvOut(as, <<>>, "continue", <<>>)

\* the arm Either::Right(Err(e)): the entry is removed, nothing is sent
HandshakeErr(as, addr) ==
    RecvOut([as EXCEPT ![addr] = Vacant], <<>>, "continue", <<>>)

\* a server that keeps the coroutine of a handshake that failed
recv_turned_keeping(as, addr, r) ==
    CASE r.side = "Left" ->
           RecvOut([as EXCEPT ![addr] = Initiated(r.g)],
                   IF r.left = None THEN <<>>
                   ELSE <<[dst |-> addr, pkt |-> r.left[1]]>>,
                   "continue", <<>>)
      [] r.side = "Right" /\ r.right.ok ->
           RecvOut([as EXCEPT ![addr] =
                       Completed(r.right.keys.rx, r.right.keys.tx)],
                   <<>>, "continue", <<>>)
      [] r.side = "Right" /\ ~r.right.ok ->
           RecvOut([as EXCEPT ![addr] = Initiated(r.g)], <<>>, "continue",
                   <<>>)
      [] OTHER -> RecvOut(as, <<>>, "panic", <<>>)

\* the arm AuthState::Initiated(g) of recv, on the result r of g.turn(buf)
recv_turned(as, addr, r) ==
    CASE r.side = "Left" ->
           \* Some(reply) is sent, None is not
           RecvOut([as EXCEPT ![addr] = Initiated(r.g)],
                   IF r.left = None THEN <<>>
                   ELSE <<[dst |-> addr, pkt |-> r.left[1]]>>,
                   "continue", <<>>)
      [] r.side = "Right" /\ r.right.ok ->
           RecvOut([as EXCEPT ![addr] =
                       Completed(r.right.keys.rx, r.right.keys.tx)],
                   <<>>, "continue", <<>>)
      [] r.side = "Right" /\ ~r.right.ok -> HandshakeErr(as, addr)
      [] OTHER -> RecvOut(as, <<>>, "panic", <<>>)

\* the arm AuthState::Initiated(g) of recv
recv_initiated(as, addr, g, buf, j) ==
    CHOOSE y \in {recv_turned(as, addr, r) :
                      r \in {turn(g, buf, ServerId, j)}} : TRUE

\* a server that drops the session on a payload that does not open
recv_completed_evicting(as, addr, rx, buf) ==
    IF PLen(buf) < NONCE
    THEN RecvOut(as, <<>>, "panic", <<>>)
    ELSE LET nonce == FromSlice(Slice(buf, 0, NONCE))
             ret == aead_open(Slice(buf, NONCE, PLen(buf)), nonce, rx)
         IN  IF ret = <<>>
             THEN RecvOut([as EXCEPT ![addr] = Vacant], <<>>, "err", <<>>)
             ELSE RecvOut(as, <<>>, "ok", ret[1])

\* the arm AuthState::Completed((rx, _)) of recv
recv_completed(as, addr, rx, buf) ==
    IF PLen(buf) < NONCE
    THEN \* &buf[0..aead::NONCEBYTES] is out of range
         RecvOut(as, <<>>, "panic", <<>>)
    ELSE LET nonce == FromSlice(Slice(buf, 0, NONCE))
             ret == aead_open(Slice(buf, NONCE, PLen(buf)), nonce, rx)
         IN  IF ret = <<>> THEN RecvOut(as, <<>>, "err", <<>>)
             ELSE RecvOut(as, <<>>, "ok", ret[1])

\* a server that starts a handshake again on a first packet from an
\* address in the middle of one
recv_entry_restarting(as, addr, auth_state, buf, j) ==
    IF auth_state.st = "Initiated"
    THEN recv_initiated(as, addr,
                        IF FirstPacketAccepted(buf)
                        THEN start(Generator_new, ServerId, j).g
                        ELSE auth_state.g, buf, j)
    ELSE recv_completed(as, addr, auth_state.rx, buf)

\* one turn of the loop of CDGramServer::recv, on the datagram buf that
\* socket.recv gave from addr; j names the randomness a handshake started
\* here draws
recv_entry(as, addr, auth_state, buf, j) ==
    IF auth_state.st = "Initiated"
    THEN recv_initiated(as, addr, auth_state.g, buf, j)
    ELSE recv_completed(as, addr, auth_state.rx, buf)

\* a server that takes a well-formed first packet from a Completed
\* address for the start of a new handshake
recv_turn_rekeying(as, addr, buf, j) ==
    IF as[addr].st = "Vacant" /\ ~FirstPacketAccepted(buf)
    THEN RecvOut(as, <<>>, "continue", <<>>)
    ELSE CHOOSE y \in {recv_entry(as, addr, auth_state, buf, j) :
                           auth_state \in
                               {IF \/ as[addr].st = "Vacant"
                                   \/ /\ as[addr].st = "Completed"
                                      /\ PLen(buf) = FirstPacketLen
                                      /\ FirstPacketAccepted(buf)
                                THEN Initiated(start(Generator_new, ServerId, j).g)
                                ELSE as[addr]}} : TRUE

recv_turn(as, addr, buf, j) ==
    IF as[addr].st = "Vacant" /\ ~FirstPacketAccepted(buf)
    THEN RecvOut(as, <<>>, "continue", <<>>)
    ELSE CHOOSE y \in {recv_entry(as, addr, auth_state, buf, j) :
                           auth_state \in
                               {IF as[addr].st = "Vacant"
                                THEN Initiated(start(Generator_new, ServerId, j).g)
                                ELSE as[addr]}} : TRUE

\* a server that reports an address in the middle of a handshake as unknown
server_send_one_error(as, addr, buf, n) ==
    IF as[addr].st # "Completed"
    THEN [sent |-> <<>>, res |-> "unknown client"]
    ELSE LET nonce == Nonce(<<"sp", n>>)
             c == aead_seal(buf, nonce, as[addr].tx)
         IN  [sent |-> <<[dst |-> addr, pkt |-> <<nonce, c>>]>>, res |-> "ok"]

\* what CDGramServer::send did: the datagrams sent and the result
\* ("ok", "unknown client", "in handshake")
server_send(as, addr, buf, n) ==
    CASE as[addr].st = "Vacant" -> [sent |-> <<>>, res |-> "unknown client"]
      [] as[addr].st = "Initiated" -> [sent |-> <<>>, res |-> "in handshake"]
      [] OTHER ->
           LET nonce == Nonce(<<"sp", n>>)
               c == aead_seal(buf, nonce, as[addr].tx)
           IN  [sent |-> <<[dst |-> addr, pkt |-> <<nonce, c>>]>>, res |-> "ok"]

(***************************************************************************)
(* CDGramClient.                                                           *)
(***************************************************************************)
ClientId == "C"
\* the server_public the client was constructed with
server_public == PK(ServerId)

\* the first packet of connect; i names the randomness of this connect
connect_pkt1(i) == <<PK(ClientId), KxPk(<<"c", i>>), Chal(<<"c", i>>)>>

ConnectOut(res, sent, keys) == [res |-> res, sent |-> sent, keys |-> keys]

\* a client that does not compare the opened response with its challenge
ChallengeUnchecked(server_response, i) == TRUE

\* the test connect makes of the sealed part of the reply
ChallengeMatches(server_response, i) == server_response = <<Chal(<<"c", i>>)>>

\* connect from the reply on: the result ("ok" or the error), the packets
\* sent and the session keys stored (None when none are)
connect_reply(i, reply) ==
    IF PLen(reply) # CH + KXPK + NONCE + CH + MAC
    THEN ConnectOut("Malformed server reply", <<>>, None)
    ELSE LET server_kx_pk == FromSlice(Slice(reply, CH, CH + KXPK))
             nonce == FromSlice(Slice(reply, CH + KXPK, CH + KXPK + NONCE))
             server_response ==
                 box_open(Slice(reply, CH + KXPK + NONCE, PLen(reply)), nonce,
                          server_public, ClientId)
         IN  IF server_response = <<>>
             THEN ConnectOut("Server failed challenge", <<>>, None)
             ELSE IF ~ChallengeMatches(server_response[1], i)
             THEN ConnectOut("Server reponse doesn't match the challenge",
                             <<>>, None)
             ELSE LET nonce3 == Nonce(<<"c", i>>)
                      response == box_seal(Slice(reply, 0, CH), nonce3,
                                           server_public, ClientId)
                  IN  ConnectOut("ok", <<<<nonce3, response>>>>,
                                 Some(client_session_keys(<<"c", i>>,
                                                          server_kx_pk)))

\* a client that sends the payload in clear while it has no session keys
client_send_unguarded(keys, buf, n) ==
    IF keys = None THEN [res |-> "ok", sent |-> <<buf>>]
    ELSE LET nonce == Nonce(<<"cp", n>>)
             c == aead_seal(buf, nonce, keys[1].tx)
         IN  [res |-> "ok", sent |-> <<<<nonce, c>>>>]

\* CDGramClient::send: the result and the packets sent; n names the nonce
client_send(keys, buf, n) ==
    IF keys = None THEN [res |-> "Client not connected yet", sent |-> <<>>]
    ELSE LET nonce == Nonce(<<"cp", n>>)
             c == aead_seal(buf, nonce, keys[1].tx)
         IN  [res |-> "ok", sent |-> <<<<nonce, c>>>>]

\* CDGramClient::recv on the datagram pkt, with session keys present
client_recv(keys, pkt) ==
    IF PLen(pkt) < NONCE
    THEN \* &pkt[0..aead::NONCEBYTES] is out of range
         [res |-> "panic", val |-> <<>>]
    ELSE LET nonce == FromSlice(Slice(pkt, 0, NONCE))
             ret == aead_open(Slice(pkt, NONCE, PLen(pkt)), nonce, keys[1].rx)
         IN  IF ret = <<>>
             THEN [res |-> "Failed to decrypt server message", val |-> <<>>]
             ELSE [res |-> "ok", val |-> ret[1]]

(***************************************************************************)
(* The messages of the daemons (daemon/src/proto.rs) and the handling of   *)
(* events per client (daemon/src/server.rs, ClientStates).  A HashMap is   *)
(* a function on the set of its keys; <<>> is the empty one.               *)
(***************************************************************************)
DevIds == 0 .. MaxDevices - 1
\* proto::InputDevice; a bit set is the set of its bits
InputDevice(name, key_bits, rel_bits, cap, key_vals, product, vendor, version) ==
    [name |-> name, key_bits |-> key_bits, rel_bits |-> rel_bits,
     cap |-> cap, key_vals |-> key_vals, product |-> product,
     vendor |-> vendor, version |-> version]

\* a keyboard and a mouse
Kbd == InputDevice("kbd", {"a", "b"}, {}, {"key"}, {}, "k", "v", "1")
Mouse == InputDevice("mouse", {"btn"}, {"x"}, {"key", "rel"}, {}, "m", "v", "1")

\* InputDevice: descriptors of devices, two that differ
DeviceStates == {Kbd, Mouse}

ClientMessage_Sync(devs) == [t |-> "Sync", devs |-> devs]
ClientMessage_KeepAlive == [t |-> "KeepAlive"]
ClientMessage_Ping == [t |-> "Ping"]
ServerMessage_Sync(updates) == [t |-> "Sync", updates |-> updates]
ServerMessage_Event(id, ev) == [t |-> "Event", id |-> id, ev |-> ev]
ServerMessage_Pong == [t |-> "Pong"]
\* InputDeviceUpdate
Update(dev) == [u |-> "Update", dev |-> dev]
Drop == [u |-> "Drop"]

\* bincode::serialize of a message, as the payload handed to send
serialize(msg) == <<Data(msg)>>

\* bincode::deserialize of a payload as a ClientMessage, an Option: None
\* stands for Err
deserialize_client(pkt) ==
    IF /\ Len(pkt) = 1
       /\ pkt[1].t = "data"
       /\ DOMAIN pkt[1].p \in {{"t"}, {"t", "devs"}}
       /\ pkt[1].p.t \in {"Sync", "KeepAlive", "Ping"}
       /\ (pkt[1].p.t = "Sync") = ("devs" \in DOMAIN pkt[1].p)
    THEN Some(pkt[1].p) ELSE None

\* the same as a ServerMessage
deserialize_server(pkt) ==
    IF /\ Len(pkt) = 1
       /\ pkt[1].t = "data"
       /\ "t" \in DOMAIN pkt[1].p
       /\ \/ pkt[1].p.t = "Sync" /\ "updates" \in DOMAIN pkt[1].p
          \/ pkt[1].p.t = "Event"
          \/ pkt[1].p.t = "Pong"
    THEN Some(pkt[1].p) ELSE None

\* enum Event
ClientPacket(msg) == [e |-> "ClientPacket", msg |-> msg]
InputEvent(id, ev) == [e |-> "InputEvent", id |-> id, ev |-> ev]
RemoveDevice(id) == [e |-> "RemoveDevice", id |-> id]
NewDevice(id, dev) == [e |-> "NewDevice", id |-> id, dev |-> dev]

\* ClientStates, as the receive task creates it; timeout is "none" for
\* None, "armed" for the handle of a timeout task that sleeps, "fired"
\* for the handle of one that sent its Timeout.  sleeping is no field of
\* the struct: it counts the timeout tasks spawned for the client that
\* sleep, neither cancelled nor done
ClientStates(addr) ==
    [synced_devices |-> {}, addr |-> addr, timeout |-> "none", sleeping |-> 0]
\* no entry in active_clients
NoClient == [addr |-> "none"]

\* what handle_event did: the ClientStates after it and the reply
Handled(cs, reply) == [cs |-> cs, reply |-> reply]

\* a server that tells a client of the devices the client named only
SyncUpdatesClaimed(devs, devices) ==
    [id \in DOMAIN devs |->
        IF id \notin DOMAIN devices THEN Drop
        ELSE IF devs[id] # devices[id] THEN Update(devs[id])
        ELSE Update(devices[id])]

\* the arm ClientPacket(Sync(devs)): the map of updates
SyncUpdates(devs, devices) ==
    LET claimed == {id \in DOMAIN devs :
                       id \notin DOMAIN devices \/ devs[id] # devices[id]}
    IN  [id \in claimed \cup DOMAIN devices |->
            IF id \notin DOMAIN devices THEN Drop
            ELSE IF id \in claimed THEN Update(devs[id])
            ELSE Update(devices[id])]

\* a server that forwards the input of every device to every client
InputEventReplyAlways(cs, dev_id, ev) ==
    Some(ServerMessage_Event(dev_id, ev))

\* the arm InputEvent((dev_id, ev)): the reply
InputEventReply(cs, dev_id, ev) ==
    IF dev_id \notin cs.synced_devices THEN None
    ELSE Some(ServerMessage_Event(dev_id, ev))

\* after the cancellation of the timeout of a client packet
handle_event_match(cs, event, devices) ==
    CASE event.e = "ClientPacket" /\ event.msg.t = "Sync" ->
           Handled([cs EXCEPT !.synced_devices = DOMAIN devices],
                   Some(ServerMessage_Sync(SyncUpdates(event.msg.devs,
                                                       devices))))
      [] event.e = "ClientPacket" /\ event.msg.t = "KeepAlive" ->
           Handled(cs, None)
      [] event.e = "ClientPacket" /\ event.msg.t = "Ping" ->
           Handled(cs, Some(ServerMessage_Pong))
      [] event.e = "RemoveDevice" ->
           Handled(cs, Some(ServerMessage_Sync([id \in {event.id} |-> Drop])))
      [] event.e = "NewDevice" ->
           Handled(cs, Some(ServerMessage_Sync(
                                [id \in {event.id} |-> Update(event.dev)])))
      [] event.e = "InputEvent" ->
           Handled(cs, InputEventReply(cs, event.id, event.ev))

\* a take that leaves the handle in place and the task asleep
take_keeping(cs) == cs

\* `if let Some(h) = timeout.take() { h.cancel().await }`: a task that
\* sleeps is stopped, one that is done is left as it is
take_cancel(cs) ==
    [cs EXCEPT !.timeout = "none",
               !.sleeping = IF cs.timeout = "armed" THEN @ - 1 ELSE @]

\* ClientStates::handle_event
handle_event(cs, event, devices) ==
    handle_event_match(IF event.e = "ClientPacket" THEN take_cancel(cs) ELSE cs,
                       event, devices)

\* g.timeout = Some(spawn(..)): a new timeout task sleeps
spawn_timeout(cs) ==
    [cs EXCEPT !.timeout = "armed", !.sleeping = @ + 1]

\* a server that arms the new timeout and lets the old task sleep on
TimeoutArmedKeeping(cs, res) ==
    IF res = "ok" THEN spawn_timeout(cs) ELSE cs

\* after server.send returned res for a reply to the client: on Ok the
\* old timeout task is cancelled and a new one is spawned
TimeoutArmed(cs, res) ==
    IF res = "ok" THEN spawn_timeout(take_cancel(cs)) ELSE cs

\* a remove that takes nothing out
remove_nothing(ac, addr) == ac

\* active_clients.remove(&addr), the map after it
remove(ac, addr) == [ac EXCEPT ![addr] = NoClient]

\* a close that leaves the entry of the peer in place
close_keeping(as, addr) == as

\* CDGramServer::close(addr): the entry of the peer is removed
close(as, addr) == [as EXCEPT ![addr] = Vacant]

(***************************************************************************)
(* State.                                                                  *)
(***************************************************************************)
VARIABLES
    auth_states,   \* CDGramServer.auth_states: address -> AuthState or Vacant
    srvRand,       \* handshakes that drew randomness (names the next draw)
    srvSends,      \* payload nonces the server drew
    srvDead,       \* the task that owns the server panicked
    hs,            \* per address: the datagrams that made the entry it has
    session_keys,  \* CDGramClient.session_keys, an Option
    cliPc,         \* "new", "connecting" (inside connect), "returned", "dead"
    cliConn,       \* connect calls so far (names the randomness of connect)
    cliSends,      \* payload nonces the client drew
    cliReply,      \* the reply the connect of this client accepted, an Option
    toServer,      \* datagrams queued for the server socket, with source
    toClient,      \* datagrams queued for the client socket
    seen,          \* every datagram put on the wire so far
    obs,           \* the call just made: input, result, datagrams sent
    mf,            \* the generator of the test of the driver
    fed,           \* the values the test fed to mf so far
    ret,           \* what the last call on mf returned
    used,          \* how mf was used: "fresh", "proper", "misused"
    codec,         \* the codec of bit sets under test
    locks,         \* the guards of the locks of the server daemon
    devices,       \* server daemon: the registry, id -> InputDevice
    active_clients,\* server daemon: address -> ClientStates or NoClient
    device_rx,     \* server daemon: the channel of control messages
    recvTask,      \* the receive task: "recv", "handle", "ended"
    recvGot,       \* what server.recv returned to the receive task
    mainTask,      \* the main loop: where it is, and on what
    devTasks,      \* ids whose device task runs
    replied,       \* per address: ids the replies to its Syncs held
    dobs,          \* the event just handled by a daemon, and the replies
    run,           \* client daemon: where run() is, and its flags
    cdevices       \* client daemon: devices, id -> InputDevice

vars == <<auth_states, srvRand, srvSends, srvDead, hs, session_keys, cliPc,
          cliConn, cliSends, cliReply, toServer, toClient, seen, obs,
          mf, fed, ret, used, codec, locks, devices, active_clients, device_rx, recvTask,
          recvGot, mainTask, devTasks, replied, dobs, run, cdevices>>
srvVars == <<auth_states, srvRand, srvSends, srvDead, hs>>
cliVars == <<session_keys, cliPc, cliConn, cliSends, cliReply>>
netVars == <<toServer, toClient, seen, obs>>
\* the state of the tests of the driver and of the codec of bit sets, and
\* of the locks followed alone
genVars == <<mf, fed, ret, used, codec, locks>>
\* the state of the server daemon and of the client daemon
dsrvVars == <<devices, active_clients, device_rx, recvTask, recvGot, mainTask,
              devTasks, replied>>
dcliVars == <<run, cdevices>>
\* the state of what is built apart from CDGram
extVars == <<genVars, dsrvVars, dcliVars, dobs>>

\* the random draws made so far
Draws == srvRand + srvSends + cliConn + cliSends

\* the random draws a run on the network net may make
DrawBound(net) ==
    CASE net = "fifo" -> MaxFifoDraws
      [] net = "lossy" -> MaxLossyDraws
      [] net = "daemon" -> MaxDaemonDraws
      [] net = "devices" -> MaxDevicesDraws
      [] net = "idle" -> MaxIdleDraws
      [] net = "restart" -> MaxRestartDraws
      [] OTHER -> MaxDraws

\* whether the random draws so far leave one to make
MayDraw(net) == Draws < DrawBound(net)

\* the networks that keep what was sent in order and lose nothing
Queued(net) == net \in {"fifo", "devices", "idle", "restart"}

\* per address: the first datagram and the third packet that made the
\* entry the address has, the reply of the server between the two, and
\* whether a handshake of the address failed on its third packet
\* closed tells of close: "closed" once the entry was closed and no
\* datagram of the address was handled since, "after" when one was, and
\* old is the entry that was closed
NoHs == [first |-> <<>>, second |-> <<>>, third |-> <<>>, failed |-> FALSE,
         closed |-> "no", old |-> Vacant]

\* the record of a call: who made it, the datagram or payload it was
\* given and from where, the entry the server had for that address, the
\* result, the value returned and the datagrams sent
Call(who, op, addr, buf, was, res, val, sent) ==
    [who |-> who, op |-> op, addr |-> addr, buf |-> buf, was |-> was,
     res |-> res, val |-> val, sent |-> sent]
NoCall == Call("", "none", ServerAddr, <<>>, Vacant, "none", <<>>, <<>>)

\* no call was made on mf
NoRet == [call |-> "none", side |-> "none", left |-> None, right |-> 0]

\* the tasks of the server daemon that take its two locks
LockTasks == {"recv", "main"}

\* no client, no guard held, both tasks at the top of their loops
LocksStart ==
    [held |-> [t \in LockTasks |-> <<>>], recv |-> "recv", main |-> "wait",
     clients |-> 0, event |-> "none", left |-> 0]

\* the locks are not followed
NoLocks == [LocksStart EXCEPT !.recv = "none", !.main = "none"]

\* no bit set is under test
NoCodec == [pc |-> "none"]

\* no generator is under test
InitNoTest ==
    /\ mf = Generator_new
    /\ fed = <<>>
    /\ ret = NoRet
    /\ used = "fresh"
    /\ codec = NoCodec
    /\ locks = NoLocks

\* the record of an event the server handled for a client or more: the
\* event, the address it came from (a client packet), active_clients as it
\* was, and per address the reply made for it (an Option) and what
\* server.send returned
Handling(event, addr, before, replies, sends) ==
    [event |-> event, addr |-> addr, before |-> before, replies |-> replies,
     sends |-> sends]
NoEvent == Handling([e |-> "none"], ServerAddr, <<>>, <<>>, <<>>)

NoGot == [addr |-> ServerAddr, pkt |-> <<>>]
\* the main loop of server::run: at device_rx.recv ("loop"), at the loop
\* over active_clients with an event ("broadcast"), between close and the
\* removal of a client that timed out ("remove"), returned ("ended") or
\* panicked
MainAt(pc, event, addr) == [pc |-> pc, event |-> event, addr |-> addr]
MainLoop == MainAt("loop", [e |-> "none"], ServerAddr)
\* client::run before connect.  keepalive tells that the handle run holds
\* is of a task that sleeps; err is the error run returned.  The rest are
\* no variables of run: orphans are the session keys of the keep-alive
\* tasks that sleep on after the run that spawned them returned, oldest
\* first; timeouts and waited are the receive timeouts that elapsed in a
\* row since the last packet, and the milliseconds they took
RunStart ==
    [pc |-> "connect", pong_pending |-> FALSE, keepalive |-> FALSE,
     err |-> "none", timeouts |-> 0, waited |-> 0, orphans |-> <<>>]

\* no daemon runs: no device, no client, no task at work
InitNoDaemon ==
    /\ devices = <<>>
    /\ active_clients = [a \in Addrs |-> NoClient]
    /\ device_rx = <<>>
    /\ recvTask = "recv"
    /\ recvGot = NoGot
    /\ mainTask = MainLoop
    /\ devTasks = {}
    /\ replied = [a \in Addrs |-> {}]
    /\ dobs = NoEvent
    /\ run = RunStart
    /\ cdevices = <<>>

\* CDGramServer::new and CDGramClient::new, nothing sent
InitCDGram ==
    /\ auth_states = [a \in Addrs |-> Vacant]
    /\ srvRand = 0
    /\ srvSends = 0
    /\ srvDead = FALSE
    /\ hs = [a \in Addrs |-> NoHs]
    /\ session_keys = None
    /\ cliPc = "new"
    /\ cliConn = 0
    /\ cliSends = 0
    /\ cliReply = None
    /\ toServer = <<>>
    /\ toClient = <<>>
    /\ seen = {}
    /\ obs = NoCall

Init ==
    /\ InitCDGram
    /\ InitNoTest
    /\ InitNoDaemon

\* obs and dobs keep the record of a call or an event for one state: the
\* step after it drops the record, and the next call is made from there
Observed ==
    /\ obs # NoCall \/ dobs # NoEvent
    /\ obs' = NoCall
    /\ dobs' = NoEvent
    /\ UNCHANGED <<toServer, toClient, seen>>
    /\ UNCHANGED srvVars
    /\ UNCHANGED cliVars
    /\ UNCHANGED <<genVars, dsrvVars, dcliVars>>

\* the datagrams of sent for the client socket, in order
RECURSIVE ForClient(_)
ForClient(sent) ==
    IF sent = <<>> THEN <<>>
    ELSE (IF Head(sent).dst = ClientAddr THEN <<Head(sent).pkt>> ELSE <<>>)
         \o ForClient(Tail(sent))

FromClient(sent) == [x \in DOMAIN sent |-> [src |-> ClientAddr, pkt |-> sent[x]]]

\* socket.send_to of the server: on the channel of MockSocket (net =
\* "fifo") the datagrams for the client are queued for its socket, in
\* order; on the open network they are on the wire, where the attacker
\* has them
ServerTransmit(net, sent) ==
    /\ Queued(net) => Len(toClient) + Len(ForClient(sent)) <= MaxQueue
    /\ toClient' = IF Queued(net) THEN toClient \o ForClient(sent) ELSE toClient
    /\ seen' = seen \cup {sent[x].pkt : x \in DOMAIN sent}

\* socket.send of the client, connected to the server
ClientTransmit(net, sent) ==
    /\ Queued(net) => Len(toServer) + Len(sent) <= MaxQueue
    /\ toServer' = IF Queued(net) THEN toServer \o FromClient(sent) ELSE toServer
    /\ seen' = seen \cup {sent[x] : x \in DOMAIN sent}

(***************************************************************************)
(* The server: one turn of the loop of recv on a datagram, and send.       *)
(***************************************************************************)
\* the record hs keeps for an address whose entry went from was to now on
\* the datagram buf, with sent the datagrams sent; an entry Initiated
\* that is removed is a handshake that failed on its third packet
HsMade(h, was, now, buf, sent) ==
    IF now = "Vacant"
    THEN [NoHs EXCEPT !.failed = h.failed \/ was = "Initiated"]
    ELSE IF was = "Vacant"
    THEN [h EXCEPT !.first = buf, !.third = <<>>,
                   !.second = IF sent = <<>> THEN <<>> ELSE sent[1].pkt]
    ELSE IF was = "Initiated" /\ now = "Completed" THEN [h EXCEPT !.third = buf]
    ELSE h

\* the same, with the first datagram after a close told apart
HsAfter(h, was, now, buf, sent) ==
    [HsMade(h, was, now, buf, sent) EXCEPT
        !.closed = IF h.closed = "closed" THEN "after" ELSE "no",
        !.old = IF h.closed = "closed" THEN h.old ELSE Vacant]

\* the record hs keeps for an address whose entry was closed
HsClosed(h, was) == [NoHs EXCEPT !.closed = "closed", !.old = was]

\* the turn r of the loop of recv on buf from addr takes effect; a
\* handshake that got past the first packet drew randomness
ServerTurn(net, addr, buf, r, drew) ==
    /\ obs = NoCall
    /\ ~srvDead
    /\ drew => MayDraw(net)
    /\ auth_states' = r.auth_states
    /\ srvRand' = IF drew THEN srvRand + 1 ELSE srvRand
    /\ srvDead' = (r.res = "panic")
    /\ obs' = Call("server", "recv", addr, buf, auth_states[addr], r.res,
                   r.val, r.sent)
    /\ hs' = [hs EXCEPT ![addr] = HsAfter(@, auth_states[addr].st,
                                          r.auth_states[addr].st, buf,
                                          r.sent)]
    /\ ServerTransmit(net, r.sent)
    /\ UNCHANGED srvSends

ServerTurned(net, addr, buf, r) ==
    ServerTurn(net, addr, buf, r,
               auth_states[addr].st = "Vacant"
                   /\ r.auth_states[addr].st = "Initiated")

\* one turn of the loop of recv, on the datagram buf from addr
ServerHandle(net, addr, buf) ==
    \E r \in {recv_turn(auth_states, addr, buf, srvRand + 1)} :
        ServerTurned(net, addr, buf, r)

\* recv takes the next datagram of the socket
ServerRecv ==
    /\ toServer # <<>>
    /\ ServerHandle("fifo", Head(toServer).src, Head(toServer).pkt)
    /\ toServer' = Tail(toServer)
    /\ UNCHANGED cliVars
    /\ UNCHANGED extVars

\* send(addr, buf)
ServerSend(net, addr, p) ==
    LET n == srvSends + 1
        r == server_send(auth_states, addr, <<Data(p)>>, n)
    IN  /\ obs = NoCall
        /\ ~srvDead
        /\ r.res = "ok" => MayDraw(net)
        /\ srvSends' = IF r.res = "ok" THEN n ELSE srvSends
        /\ obs' = Call("server", "send", addr, <<Data(p)>>, auth_states[addr],
                       r.res, <<>>, r.sent)
        /\ ServerTransmit(net, r.sent)
        /\ UNCHANGED <<auth_states, srvRand, srvDead, hs, toServer>>
        /\ UNCHANGED cliVars
        /\ UNCHANGED extVars

(***************************************************************************)
(* The client.  A CDGramClient is connected once (daemon client.rs, the    *)
(* test); the restart loop of the daemon builds a new one.                 *)
(***************************************************************************)
\* connect, up to the wait for the reply
ClientConnect(net) ==
    LET i == cliConn + 1 IN
    /\ obs = NoCall
    /\ cliPc = "new"
    /\ MayDraw(net)
    /\ cliConn' = i
    /\ cliPc' = "connecting"
    /\ obs' = Call("client", "connect", ServerAddr, <<>>, Vacant, "pending",
                   <<>>, <<connect_pkt1(i)>>)
    /\ ClientTransmit(net, <<connect_pkt1(i)>>)
    /\ UNCHANGED <<session_keys, cliSends, cliReply, toClient>>
    /\ UNCHANGED srvVars
    /\ UNCHANGED extVars

\* connect, from the reply on
ConnectHandle(net, reply) ==
    LET r == connect_reply(cliConn, reply) IN
    /\ obs = NoCall
    /\ cliPc = "connecting"
    /\ session_keys' = IF r.res = "ok" THEN r.keys ELSE session_keys
    /\ cliPc' = "returned"
    /\ obs' = Call("client", "connect", ServerAddr, reply, Vacant, r.res,
                   <<>>, r.sent)
    /\ cliReply' = IF r.res = "ok" THEN Some(reply) ELSE cliReply
    /\ ClientTransmit(net, r.sent)
    /\ UNCHANGED <<cliConn, cliSends>>
    /\ UNCHANGED srvVars

\* recv with session keys present, on the datagram the socket gives
RecvHandle(pkt) ==
    LET r == client_recv(session_keys, pkt) IN
    /\ obs = NoCall
    /\ cliPc = "returned"
    /\ session_keys # None
    /\ cliPc' = IF r.res = "panic" THEN "dead" ELSE "returned"
    /\ obs' = Call("client", "recv", ServerAddr, pkt, Vacant, r.res, r.val,
                   <<>>)
    /\ UNCHANGED <<session_keys, cliConn, cliSends, cliReply, toServer, seen>>
    /\ UNCHANGED srvVars

ClientConnectRecv ==
    /\ toClient # <<>>
    /\ ConnectHandle("fifo", Head(toClient))
    /\ toClient' = Tail(toClient)
    /\ UNCHANGED extVars

ClientRecv ==
    /\ toClient # <<>>
    /\ RecvHandle(Head(toClient))
    /\ toClient' = Tail(toClient)
    /\ UNCHANGED extVars

\* recv without session keys
ClientRecvNotConnected ==
    /\ obs = NoCall
    /\ cliPc \in {"new", "returned"}
    /\ session_keys = None
    /\ obs' = Call("client", "recv", ServerAddr, <<>>, Vacant,
                   "Client not connected yet", <<>>, <<>>)
    /\ UNCHANGED <<session_keys, cliPc, cliConn, cliSends, cliReply,
                   toServer, toClient, seen>>
    /\ UNCHANGED srvVars
    /\ UNCHANGED extVars

\* send(buf)
ClientSend(net, p) ==
    LET n == cliSends + 1
        r == client_send(session_keys, <<Data(p)>>, n)
    IN  /\ obs = NoCall
        /\ cliPc \in {"new", "returned"}
        /\ r.res = "ok" => MayDraw(net)
        /\ cliSends' = IF r.res = "ok" THEN n ELSE cliSends
        /\ obs' = Call("client", "send", ServerAddr, <<Data(p)>>, Vacant,
                       r.res, <<>>, r.sent)
        /\ ClientTransmit(net, r.sent)
        /\ UNCHANGED <<session_keys, cliPc, cliConn, cliReply, toClient>>
        /\ UNCHANGED srvVars
        /\ UNCHANGED extVars

\* the restart loop of the daemon: client::run builds a socket and a
\* CDGramClient anew
ClientRestart(net) ==
    /\ obs = NoCall
    /\ cliPc \in {"connecting", "returned", "dead"}
    /\ MayDraw(net)
    /\ session_keys' = None
    /\ cliPc' = "new"
    /\ cliReply' = None
    /\ toClient' = <<>>
    /\ UNCHANGED <<cliConn, cliSends, toServer, seen, obs>>
    /\ UNCHANGED srvVars
    /\ UNCHANGED extVars

(***************************************************************************)
(* The network (spec.md section 1: an untrusted network).  The attacker    *)
(* reads every datagram, drops datagrams, and puts datagrams of its own    *)
(* making in front of either socket, from any source address.  It holds a  *)
(* key pair of its own ("E", not authorized) and the public keys of the    *)
(* server and the client, and no other secret.                             *)
(***************************************************************************)
AttId == <<"e", 0>>
AttKx == KxPk(AttId)
AttCh == Chal(AttId)
AttNonce == Nonce(AttId)

SeenBlocks == UNION {{pkt[x] : x \in DOMAIN pkt} : pkt \in seen}
KnownCh == {AttCh} \cup {b \in SeenBlocks : b.t = "rand32"}
KnownKx == {AttKx} \cup {b \in SeenBlocks : b.t = "kxpk"}
SeenBoxes == {b \in SeenBlocks : b.t = "box"}

\* the attacker holds the secret of one of the two key exchange pairs
AttackerDerives(key) == key.t = "skey" /\ AttKx \in key.q

\* boxes the attacker seals with its own secret key
OwnBoxes ==
    {box_seal(<<c>>, AttNonce, PK(ServerId), "E") :
        c \in {c \in KnownCh : c.k[1] # "e"}}

\* first packets: an authorized or an unauthorized key, its own key
\* exchange key, any challenge
Pkt1Forms == {<<PK(a), AttKx, c>> : a \in {"C", "E"}, c \in KnownCh}

\* third packets: a box it saw, with its nonce or another, or its own box
Pkt3Forms ==
    {<<b.n, b>> : b \in SeenBoxes \cup OwnBoxes}
    \cup {<<AttNonce, b>> : b \in SeenBoxes}

\* datagrams of wrong lengths
Malformed ==
    {<<>>, <<Junk(BOXPK - 1)>>, <<PK("C")>>, <<PK("E")>>,
     <<PK("C"), Junk(KXPK + CH - 1)>>, <<PK("C"), AttKx, AttCh, Junk(1)>>,
     <<Junk(NONCE - 1)>>, <<Junk(NONCE + MAC)>>,
     <<Junk(NONCE + CH + MAC)>>}
    \cup {<<b.n, b, Junk(1)>> : b \in SeenBoxes}

\* payloads sealed under the session keys it can derive
Forged(keys) ==
    {<<AttNonce, aead_seal(<<Data(p)>>, AttNonce, k)>> :
        p \in {"x"}, k \in {k \in keys : AttackerDerives(k)}}

ToServerPackets ==
    seen \cup Pkt1Forms \cup Pkt3Forms \cup Malformed
    \cup Forged({auth_states[a].rx :
                    a \in {a \in Addrs : auth_states[a].st = "Completed"}})

\* second packets: a challenge and a key exchange key of the server or of
\* its own, around a box it saw or made
Pkt2Forms ==
    {<<c, k, b.n, b>> :
        c \in {AttCh} \cup {c \in KnownCh : c.k[1] = "s"},
        k \in {AttKx} \cup {k \in KnownKx : k.k[1] = "s"},
        b \in SeenBoxes \cup OwnBoxes}

\* datagrams for the client in connect
ToConnectPackets ==
    seen \cup Pkt2Forms
    \cup {<<Junk(NONCE - 1)>>, <<Junk(CH + KXPK + NONCE + CH + MAC)>>}
    \cup {<<c, k, b.n, b, Junk(1)>> : c \in {AttCh}, k \in {AttKx},
                                      b \in SeenBoxes}

\* datagrams for the client in recv
ToRecvPackets ==
    seen \cup {<<Junk(NONCE - 1)>>, <<Junk(NONCE + MAC)>>}
    \cup Forged({session_keys[x].rx : x \in DOMAIN session_keys})

AttackerToServer ==
    /\ obs = NoCall
    /\ ~srvDead
    /\ \E addr \in Addrs, pkt \in ToServerPackets :
        /\ ServerHandle("open", addr, pkt)
        /\ UNCHANGED toServer
        /\ UNCHANGED cliVars
    /\ UNCHANGED extVars

AttackerToConnect ==
    /\ obs = NoCall
    /\ cliPc = "connecting"
    /\ \E pkt \in ToConnectPackets :
        /\ ConnectHandle("open", pkt)
        /\ UNCHANGED toClient
    /\ UNCHANGED extVars

AttackerToRecv ==
    /\ obs = NoCall
    /\ cliPc = "returned"
    /\ session_keys # None
    /\ \E pkt \in ToRecvPackets :
        /\ RecvHandle(pkt)
        /\ UNCHANGED toClient
    /\ UNCHANGED extVars

\* a network that loses, repeats, reorders and garbles the datagrams of the
\* client and the server, and sends none of its own making: it gives the
\* server a datagram that was sent, a box that was sent under a nonce
\* that was not its own, or arbitrary bytes
LossyToServer ==
    /\ obs = NoCall
    /\ ~srvDead
    /\ \E pkt \in seen \cup Malformed
                  \cup {<<b.n, b>> : b \in SeenBoxes} :
        /\ ServerHandle("lossy", ClientAddr, pkt)
        /\ UNCHANGED toServer
        /\ UNCHANGED cliVars
    /\ UNCHANGED extVars

LossyToConnect ==
    /\ obs = NoCall
    /\ cliPc = "connecting"
    /\ \E pkt \in seen \cup {<<Junk(CH + KXPK + NONCE + CH + MAC)>>} :
        /\ ConnectHandle("lossy", pkt)
        /\ UNCHANGED toClient
    /\ UNCHANGED extVars

\* the parties on the untrusted network
Next ==
    \/ \E addr \in Addrs : ServerSend("open", addr, "q")
    \/ ClientConnect("open")
    \/ ClientRecvNotConnected
    \/ ClientSend("open", "p")
    \/ ClientRestart("open")
    \/ AttackerToServer
    \/ AttackerToConnect
    \/ AttackerToRecv
    \/ Observed

Spec == Init /\ [][Next]_vars

\* the client and the server on the network that loses, repeats and
\* garbles
NextLossy ==
    \/ ClientConnect("lossy")
    \/ ClientRestart("lossy")
    \/ LossyToServer
    \/ LossyToConnect
    \/ Observed

SpecLossy == Init /\ [][NextLossy]_vars

\* the parties on the channel pair of MockSocket (tests.rs): datagrams
\* arrive in order and none is lost; one client, connected once
NextHappy ==
    \/ ServerRecv
    \/ \E addr \in Addrs, q \in Payloads : ServerSend("fifo", addr, q)
    \/ ClientConnect("fifo")
    \/ ClientConnectRecv
    \/ ClientRecv
    \/ ClientRecvNotConnected
    \/ \E p \in Payloads : ClientSend("fifo", p)
    \/ Observed

\* the executor runs every task that is ready again and again: the task
\* in server.recv, the client in connect and in recv
SpecHappy ==
    /\ Init
    /\ [][NextHappy]_vars
    /\ SF_vars(ServerRecv)
    /\ SF_vars(ClientConnect("fifo"))
    /\ SF_vars(ClientConnectRecv)
    /\ SF_vars(ClientRecv)
    /\ WF_vars(Observed)

(***************************************************************************)
(* The fuzzing harness (bin/fuzz.rs): one task in server.recv, and a       *)
(* sender at the address of the client that holds the public key of the    *)
(* client and not its secret key, and sends datagrams of its making.       *)
(***************************************************************************)
\* client_sock.send(pkt), and the turn of recv on it
FuzzToServer ==
    /\ obs = NoCall
    /\ ~srvDead
    /\ \E pkt \in ToServerPackets :
        /\ ServerHandle("fuzz", ClientAddr, pkt)
        /\ UNCHANGED toServer
        /\ UNCHANGED cliVars
    /\ UNCHANGED extVars

NextFuzz ==
    \/ FuzzToServer
    \/ Observed

SpecFuzz == Init /\ [][NextFuzz]_vars

(***************************************************************************)
(* The test of the driver (generator.rs, test_async_cell): a generator     *)
(* with n yield points is started and fed values.                          *)
(***************************************************************************)
\* what a call on mf returned
Returned(call, r) ==
    [call |-> call, side |-> r.side, left |-> r.left,
     right |-> IF r.side = "Right" THEN r.right ELSE 0]

\* mf.start()
GenStart ==
    /\ ret.side # "Panic"
    /\ \E r \in {start(mf, ServerId, 0)} :
        /\ mf' = r.g
        /\ ret' = Returned("start", r)
    /\ used' = IF used = "fresh" THEN "proper" ELSE "misused"
    /\ UNCHANGED <<fed, codec, locks>>
    /\ UNCHANGED <<srvVars, cliVars, netVars, dsrvVars, dcliVars, dobs>>

\* mf.turn(x); the test stops after one turn more than mf has yields
GenTurn(x) ==
    /\ ret.side # "Panic"
    /\ Len(fed) <= mf.loc.n
    /\ \E r \in {turn(mf, x, ServerId, 0)} :
        /\ mf' = r.g
        /\ ret' = Returned("turn", r)
    /\ fed' = Append(fed, x)
    /\ used' = IF used = "proper" /\ ret.side # "Right" THEN "proper"
               ELSE "misused"
    /\ UNCHANGED <<codec, locks>>
    /\ UNCHANGED <<srvVars, cliVars, netVars, dsrvVars, dcliVars, dobs>>

\* Generator::new(read), for read with any number of yields
InitGen ==
    /\ InitCDGram
    /\ mf \in {Generator_new_read(n) : n \in 1 .. MaxYields}
    /\ fed = <<>>
    /\ ret = NoRet
    /\ used = "fresh"
    /\ codec = NoCodec
    /\ locks = NoLocks
    /\ InitNoDaemon

NextGen ==
    \/ GenStart
    \/ \E x \in FeedValues : GenTurn(x)

SpecGen == InitGen /\ [][NextGen]_vars

(***************************************************************************)
(* The server daemon (daemon/src/server.rs, run): the receive task, the    *)
(* main loop, the device tasks, the monitor and the timeout tasks.  The    *)
(* network "daemon" gives a socket any datagram that was sent, or one of   *)
(* these that no key opens, from the address of the client; the network    *)
(* "devices" loses nothing and keeps the order.                            *)
(***************************************************************************)
\* datagrams the network makes up: too short for a nonce, as long as an
\* empty payload, and a first packet of a key that is not authorized
DaemonJunk ==
    {<<Junk(NONCE - 1)>>, <<Junk(NONCE + MAC)>>, <<PK("E"), AttKx, AttCh>>}

\* the datagrams socket.recv may give next, queue the datagrams sent to
\* the socket
Incoming(net, queue) ==
    IF Queued(net)
    THEN (IF queue = <<>> THEN {} ELSE {Head(queue)})
    ELSE seen \cup DaemonJunk

\* the datagrams sent to the socket after socket.recv gave one
Taken(net, queue) == IF Queued(net) THEN Tail(queue) ELSE queue

ServerRuns == mainTask.pc \notin {"ended", "panicked"}

\* the receive task at server.recv: one turn of its loop on a datagram;
\* `msg?` ends the task when recv returns Err
RecvTaskRecv(net) ==
    /\ dobs = NoEvent
    /\ ServerRuns
    /\ recvTask = "recv"
    /\ \E pkt \in Incoming(net, [x \in DOMAIN toServer |-> toServer[x].pkt]) :
         \E r \in {recv_turn(auth_states, ClientAddr, pkt, srvRand + 1)} :
             /\ ServerTurned(net, ClientAddr, pkt, r)
             /\ recvTask' = CASE r.res = "ok" -> "handle"
                               [] r.res = "continue" -> "recv"
                               [] OTHER -> "ended"
             /\ recvGot' = IF r.res = "ok"
                           THEN [addr |-> ClientAddr, pkt |-> r.val]
                           ELSE NoGot
    /\ toServer' = Taken(net, toServer)
    /\ UNCHANGED dobs
    /\ UNCHANGED <<devices, active_clients, device_rx, mainTask, devTasks,
                   replied>>
    /\ UNCHANGED <<cliVars, genVars, dcliVars>>

\* server.send of the reply made for addr, an Option; n names the nonce
send_reply(as, addr, reply, n) ==
    IF reply = None THEN [sent |-> <<>>, res |-> "none"]
    ELSE server_send(as, addr, serialize(reply[1]), n)

\* the ids of the entries of a reply Sync
SyncIds(reply) ==
    IF reply # None /\ reply[1].t = "Sync" THEN DOMAIN reply[1].updates ELSE {}

\* the receive task from deserialize on, under the lock of active_clients
RecvTaskHandle(net) ==
    /\ obs = NoCall
    /\ dobs = NoEvent
    /\ ServerRuns
    /\ recvTask = "handle"
    /\ \E pkt \in {deserialize_client(recvGot.pkt)} :
         IF pkt = None
         THEN /\ recvTask' = "ended"
              /\ dobs' = Handling([e |-> "undecodable"], recvGot.addr,
                                  active_clients, <<>>, <<>>)
              /\ UNCHANGED <<active_clients, srvSends, replied, obs, toClient,
                             seen>>
         ELSE \E h \in {handle_event(IF active_clients[recvGot.addr] = NoClient
                                     THEN ClientStates(recvGot.addr)
                                     ELSE active_clients[recvGot.addr],
                                     ClientPacket(pkt[1]), devices)} :
              \E r \in {send_reply(auth_states, recvGot.addr, h.reply,
                                   srvSends + 1)} :
                  /\ r.res = "ok" => MayDraw(net)
                  /\ recvTask' = "recv"
                  /\ active_clients' =
                         [active_clients EXCEPT
                             ![recvGot.addr] = TimeoutArmed(h.cs, r.res)]
                  /\ srvSends' = IF r.res = "ok" THEN srvSends + 1
                                 ELSE srvSends
                  /\ replied' = [replied EXCEPT
                                    ![recvGot.addr] = @ \cup SyncIds(h.reply)]
                  /\ obs' = IF h.reply = None THEN NoCall
                            ELSE Call("server", "send", recvGot.addr,
                                      serialize(h.reply[1]),
                                      auth_states[recvGot.addr], r.res, <<>>,
                                      r.sent)
                  /\ dobs' = Handling(ClientPacket(pkt[1]), recvGot.addr,
                                      active_clients,
                                      recvGot.addr :> h.reply,
                                      recvGot.addr :> r.res)
                  /\ ServerTransmit(net, r.sent)
    /\ recvGot' = NoGot
    /\ UNCHANGED <<auth_states, srvRand, srvDead, hs, toServer>>
    /\ UNCHANGED <<devices, device_rx, mainTask, devTasks>>
    /\ UNCHANGED <<cliVars, genVars, dcliVars>>

\* the order in which the main loop goes over active_clients
AddrOrder == <<ClientAddr, OtherAddr>>

\* the loop over active_clients on event, from the addresses q on, with
\* n payloads sealed so far: active_clients after it, the datagrams sent,
\* and per client the reply and what server.send returned
RECURSIVE Broadcast(_, _, _, _, _, _)
Broadcast(q, event, devs, ac, as, n) ==
    IF q = <<>>
    THEN [ac |-> ac, n |-> n, sent |-> <<>>, replies |-> <<>>, sends |-> <<>>]
    ELSE IF ac[Head(q)] = NoClient
    THEN Broadcast(Tail(q), event, devs, ac, as, n)
    ELSE CHOOSE y \in
           {[ac |-> t[3].ac, n |-> t[3].n, sent |-> t[2].sent \o t[3].sent,
             replies |-> (Head(q) :> t[1].reply) @@ t[3].replies,
             sends |-> (Head(q) :> t[2].res) @@ t[3].sends] :
              t \in
                {<<p[1], p[2],
                   Broadcast(Tail(q), event, devs,
                             [ac EXCEPT ![Head(q)] =
                                 TimeoutArmed(p[1].cs, p[2].res)],
                             as, IF p[2].res = "ok" THEN n + 1 ELSE n)>> :
                   p \in
                     {<<h, send_reply(as, Head(q), h.reply, n + 1)>> :
                        h \in {handle_event(ac[Head(q)], event, devs)}}}}
           : TRUE

\* the main loop takes a control message
MainTakes(c) ==
    /\ obs = NoCall
    /\ dobs = NoEvent
    /\ mainTask.pc = "loop"
    /\ device_rx # <<>>
    /\ Head(device_rx).c = c
    /\ device_rx' = Tail(device_rx)

\* what the steps of the main loop leave alone
MainFrame ==
    /\ UNCHANGED <<recvTask, recvGot, toServer>>
    /\ UNCHANGED <<cliVars, genVars, dcliVars>>

\* a step of the main loop that does not call the server
MainQuiet ==
    /\ UNCHANGED <<srvVars, toClient, seen, obs, dobs, active_clients,
                   replied>>

\* ControlEvent::Event(Event::RemoveDevice(id))
MainRemoveDevice ==
    /\ MainTakes("RemoveDevice")
    /\ \E id \in {Head(device_rx).id} :
         IF id \in DOMAIN devices
         THEN /\ devices' = [x \in DOMAIN devices \ {id} |-> devices[x]]
              /\ mainTask' = MainAt("broadcast", RemoveDevice(id), ServerAddr)
         ELSE \* remove(&id).unwrap() on None
              /\ mainTask' = MainAt("panicked", [e |-> "none"], ServerAddr)
              /\ UNCHANGED devices
    /\ UNCHANGED devTasks
    /\ MainQuiet
    /\ MainFrame

\* ControlEvent::MonitorNewDevice(dev)
MainNewDevice ==
    /\ MainTakes("MonitorNewDevice")
    /\ \E dev_id \in {Cardinality(DOMAIN devices)} :
       \E dev \in {Head(device_rx).dev} :
         IF dev_id \notin DOMAIN devices
         THEN /\ devices' = [x \in DOMAIN devices \cup {dev_id} |->
                                IF x = dev_id THEN dev ELSE devices[x]]
              /\ devTasks' = devTasks \cup {dev_id}
              /\ mainTask' = MainAt("broadcast", NewDevice(dev_id, dev),
                                    ServerAddr)
         ELSE \* insert(dev_id, state).unwrap_none() on Some
              /\ devices' = [devices EXCEPT ![dev_id] = dev]
              /\ mainTask' = MainAt("panicked", [e |-> "none"], ServerAddr)
              /\ UNCHANGED devTasks
    /\ MainQuiet
    /\ MainFrame

\* ControlEvent::MonitorError(e)
MainMonitorError ==
    /\ MainTakes("MonitorError")
    /\ mainTask' = MainAt("ended", [e |-> "none"], ServerAddr)
    /\ UNCHANGED <<devices, devTasks>>
    /\ MainQuiet
    /\ MainFrame

\* ControlEvent::Event(e), e the input of a device
MainInputEvent ==
    /\ MainTakes("InputEvent")
    /\ mainTask' = MainAt("broadcast",
                          InputEvent(Head(device_rx).id, Head(device_rx).ev),
                          ServerAddr)
    /\ UNCHANGED <<devices, devTasks>>
    /\ MainQuiet
    /\ MainFrame

\* ControlEvent::Timeout(addr), up to server2.close(addr)
MainTimeout ==
    /\ MainTakes("Timeout")
    /\ \E addr \in {Head(device_rx).addr} :
         /\ auth_states' = close(auth_states, addr)
         /\ hs' = [hs EXCEPT ![addr] = HsClosed(@, auth_states[addr])]
         /\ obs' = Call("server", "close", addr, <<>>, auth_states[addr],
                        "ok", <<>>, <<>>)
         /\ mainTask' = MainAt("remove", [e |-> "none"], addr)
    /\ UNCHANGED <<srvRand, srvSends, srvDead, toClient, seen, dobs>>
    /\ UNCHANGED <<devices, devTasks, active_clients, replied>>
    /\ MainFrame

\* ControlEvent::Timeout(addr), from active_clients.remove(&addr) on
MainTimeoutRemove ==
    /\ obs = NoCall
    /\ dobs = NoEvent
    /\ mainTask.pc = "remove"
    /\ \E g \in {active_clients[mainTask.addr]} :
         /\ mainTask' = IF g = NoClient \/ g.timeout = "none"
                        THEN \* unwrap() on None
                             MainAt("panicked", [e |-> "none"], ServerAddr)
                        ELSE MainLoop
         /\ active_clients' = remove(active_clients, mainTask.addr)
         /\ replied' = [replied EXCEPT ![mainTask.addr] = {}]
         /\ dobs' = Handling([e |-> "Timeout"], mainTask.addr, active_clients,
                             <<>>, <<>>)
    /\ UNCHANGED <<srvVars, toClient, seen, obs>>
    /\ UNCHANGED <<devices, device_rx, devTasks>>
    /\ MainFrame

\* the loop over active_clients with the event of the control message
MainBroadcast(net) ==
    /\ obs = NoCall
    /\ dobs = NoEvent
    /\ mainTask.pc = "broadcast"
    /\ \E r \in {Broadcast(AddrOrder, mainTask.event, devices, active_clients,
                            auth_states, srvSends)} :
         /\ Draws + (r.n - srvSends) <= DrawBound(net)
         /\ active_clients' = r.ac
         /\ srvSends' = r.n
         /\ dobs' = IF DOMAIN r.replies = {} THEN NoEvent
                    ELSE Handling(mainTask.event, ServerAddr, active_clients,
                                  r.replies, r.sends)
         /\ ServerTransmit(net, r.sent)
    /\ mainTask' = MainLoop
    /\ UNCHANGED <<auth_states, srvRand, srvDead, hs, obs>>
    /\ UNCHANGED <<devices, device_rx, devTasks, replied>>
    /\ MainFrame

\* what the tasks that feed device_rx leave alone
FeedFrame ==
    /\ obs = NoCall
    /\ dobs = NoEvent
    /\ ServerRuns
    /\ Len(device_rx) < MaxControl
    /\ UNCHANGED <<srvVars, cliVars, netVars, genVars, dcliVars, dobs>>
    /\ UNCHANGED <<devices, recvTask, recvGot, mainTask, replied>>

\* the task of device id reads an input event (start_device)
DeviceInput(id) ==
    /\ id \in devTasks
    /\ device_rx' = Append(device_rx, [c |-> "InputEvent", id |-> id,
                                       ev |-> "ev"])
    /\ UNCHANGED <<devTasks, active_clients>>
    /\ FeedFrame

\* the device of the task of id is gone: the task sends RemoveDevice
\* and ends
DeviceDies(id) ==
    /\ id \in devTasks
    /\ devTasks' = devTasks \ {id}
    /\ device_rx' = Append(device_rx, [c |-> "RemoveDevice", id |-> id])
    /\ UNCHANGED active_clients
    /\ FeedFrame

\* the devices that are plugged in while the server runs
HotPlugged == {Mouse}

\* monitor_devices finds a new device, while fewer than max are known
MonitorAddsUpTo(dev, max) ==
    /\ Cardinality(DOMAIN devices)
           + Cardinality({x \in DOMAIN device_rx :
                             device_rx[x].c = "MonitorNewDevice"}) < max
    /\ device_rx' = Append(device_rx, [c |-> "MonitorNewDevice", dev |-> dev])
    /\ UNCHANGED <<devTasks, active_clients>>
    /\ FeedFrame

MonitorAdds(dev) == MonitorAddsUpTo(dev, MaxDevices)

\* monitor_devices returns its error
MonitorFails ==
    /\ device_rx' = Append(device_rx, [c |-> "MonitorError"])
    /\ UNCHANGED <<devTasks, active_clients>>
    /\ FeedFrame

\* the timeout task of addr wakes after 200 ms and sends Timeout(addr)
TimerFires(addr) ==
    /\ active_clients[addr] # NoClient
    /\ active_clients[addr].timeout = "armed"
    /\ active_clients' = [active_clients EXCEPT
                             ![addr].timeout = "fired",
                             ![addr].sleeping = @ - 1]
    /\ device_rx' = Append(device_rx, [c |-> "Timeout", addr |-> addr])
    /\ UNCHANGED devTasks
    /\ FeedFrame

(***************************************************************************)
(* The client daemon (daemon/src/client.rs, run, and the restart loop of   *)
(* main.rs).  A restart binds a socket anew; the case kept is that of a    *)
(* client heard from the address it had.                                   *)
(***************************************************************************)
\* handle_packet compares all but version
differs_but_version(old, state) ==
    \/ old.cap # state.cap
    \/ old.key_bits # state.key_bits
    \/ old.rel_bits # state.rel_bits
    \/ old.name # state.name
    \/ old.vendor # state.vendor
    \/ old.product # state.product

\* handle_packet: the held device is recreated for state
differs(old, state) ==
    \/ old.cap # state.cap
    \/ old.key_bits # state.key_bits
    \/ old.rel_bits # state.rel_bits
    \/ old.name # state.name
    \/ old.vendor # state.vendor
    \/ old.product # state.product
    \/ old.version # state.version

\* the devices handle_packet creates for a Sync
creates(pkt, devs) ==
    IF pkt.t = "Sync"
    THEN {id \in DOMAIN pkt.updates :
             /\ pkt.updates[id].u = "Update"
             /\ id \in DOMAIN devs => differs(devs[id], pkt.updates[id].dev)}
    ELSE {}

\* the devices handle_packet removes, and so destroys, for a Sync
destroys(pkt, devs) ==
    IF pkt.t = "Sync"
    THEN {id \in DOMAIN pkt.updates \cap DOMAIN devs :
             pkt.updates[id].u = "Update"
                 => differs(devs[id], pkt.updates[id].dev)}
    ELSE {}

\* handle_packet: the devices of the client after the message, when every
\* create and write succeeds
handle_packet(pkt, devs) ==
    IF pkt.t = "Sync"
    THEN [id \in (DOMAIN devs \ destroys(pkt, devs)) \cup creates(pkt, devs)
             |-> IF id \in creates(pkt, devs) THEN pkt.updates[id].dev
                 ELSE devs[id]]
    ELSE devs

\* client.send of a message, by run or by the keep-alive task
DClientSends(net, msg) ==
    /\ obs = NoCall
    /\ dobs = NoEvent
    /\ cliPc = "returned"
    /\ \E r \in {client_send(session_keys, serialize(msg), cliSends + 1)} :
         /\ r.res = "ok" => MayDraw(net)
         /\ cliSends' = IF r.res = "ok" THEN cliSends + 1 ELSE cliSends
         /\ obs' = Call("client", "send", ServerAddr, serialize(msg), Vacant,
                        r.res, <<>>, r.sent)
         /\ ClientTransmit(net, r.sent)
    /\ UNCHANGED <<session_keys, cliPc, cliConn, cliReply, toClient>>
    /\ UNCHANGED <<srvVars, genVars, dsrvVars, dobs, cdevices>>

\* client.connect(server_addr), up to the wait for the reply
DClientConnect(net) ==
    /\ dobs = NoEvent
    /\ run.pc = "connect"
    /\ ClientConnect(net)

\* client.connect(server_addr), from the reply on
DClientConnectRecv(net) ==
    /\ dobs = NoEvent
    /\ run.pc = "connect"
    /\ \E reply \in Incoming(net, toClient) :
         /\ ConnectHandle(net, reply)
         /\ \E r \in {connect_reply(cliConn, reply)} :
              run' = IF r.res = "ok" THEN [run EXCEPT !.pc = "sync"]
                     ELSE [run EXCEPT !.pc = "ended", !.err = r.res]
    /\ toClient' = Taken(net, toClient)
    /\ UNCHANGED <<genVars, dsrvVars, dobs, cdevices>>

\* client.send of Sync(HashMap::new()), after connect
DClientSync(net) ==
    /\ run.pc = "sync"
    /\ DClientSends(net, ClientMessage_Sync(<<>>))
    /\ run' = [run EXCEPT !.pc = "loop"]

\* the second of connect and of the first Sync is over
DClientGivesUp ==
    /\ obs = NoCall
    /\ dobs = NoEvent
    /\ run.pc \in {"connect", "sync"}
    /\ cliPc \in {"connecting", "returned"}
    /\ run' = [run EXCEPT !.pc = "ended",
                          !.err = "Timed out establishing connection"]
    /\ UNCHANGED <<srvVars, cliVars, netVars, genVars, dsrvVars, dobs,
                   cdevices>>

\* the time run waits for a packet, in ms
\* the sleep of the keep-alive task, in ms
KeepAliveWait == 50

recv_timeout(pong_pending) == IF pong_pending THEN PongWait ELSE IdleWait

\* a run that leaves pong_pending as it is when a packet is handled
RunAfterPending(r) ==
    CASE r.res = "panic" -> [run EXCEPT !.pc = "panicked"]
      [] r.res # "ok" ->
           [run EXCEPT !.pc = "ended", !.err = r.res,
                       !.timeouts = 0, !.waited = 0]
      [] deserialize_server(r.val) = None ->
           [run EXCEPT !.pc = "ended", !.err = "deserialize",
                       !.keepalive = TRUE, !.timeouts = 0, !.waited = 0]
      [] OTHER -> [run EXCEPT !.keepalive = TRUE,
                              !.timeouts = 0, !.waited = 0]

\* run after client.recv returned r in its loop: `pkt?`, the keep-alive
\* task, deserialize, handle_packet
RunAfter(r) ==
    CASE r.res = "panic" -> [run EXCEPT !.pc = "panicked"]
      [] r.res # "ok" ->
           [run EXCEPT !.pc = "ended", !.err = r.res,
                       !.timeouts = 0, !.waited = 0]
      [] deserialize_server(r.val) = None ->
           [run EXCEPT !.pc = "ended", !.err = "deserialize",
                       !.keepalive = TRUE, !.timeouts = 0, !.waited = 0]
      [] OTHER -> [run EXCEPT !.pong_pending = FALSE, !.keepalive = TRUE,
                              !.timeouts = 0, !.waited = 0]

\* the loop of run: client.recv returns a Sync, and InputDeviceState::create
\* fails in handle_packet (no /dev/uinput, or a name of more than 80
\* bytes): run returns the error, after the keep-alive task was spawned
DClientCreateFails(net) ==
    /\ dobs = NoEvent
    /\ run.pc = "loop"
    /\ \E pkt \in Incoming(net, toClient) :
         /\ RecvHandle(pkt)
         /\ \E r \in {client_recv(session_keys, pkt)} :
              /\ r.res = "ok"
              /\ deserialize_server(r.val) # None
              /\ creates(deserialize_server(r.val)[1], cdevices) # {}
              /\ run' = [RunAfter(r) EXCEPT !.pc = "ended", !.err = "create",
                                            !.pong_pending = run.pong_pending]
    /\ toClient' = Taken(net, toClient)
    /\ UNCHANGED <<genVars, dsrvVars, dobs, cdevices>>

\* the loop of run: client.recv returns
DClientRecv(net) ==
    /\ dobs = NoEvent
    /\ run.pc = "loop"
    /\ \E pkt \in Incoming(net, toClient) :
         /\ RecvHandle(pkt)
         /\ \E r \in {client_recv(session_keys, pkt)} :
              /\ run' = RunAfter(r)
              /\ cdevices' = IF r.res = "ok" /\ deserialize_server(r.val) # None
                             THEN handle_packet(deserialize_server(r.val)[1],
                                                cdevices)
                             ELSE cdevices
    /\ toClient' = Taken(net, toClient)
    /\ UNCHANGED <<genVars, dsrvVars, dobs>>

\* the keep-alive tasks spawned before a receive that timed out have woken
\* when their sleep is shorter than the timeout
NoneSleepsThrough(r) ==
    KeepAliveWait < recv_timeout(r.pong_pending)
        => ~r.keepalive /\ r.orphans = <<>>

\* the loop of run: no datagram in time, and no Ping is pending
DClientIdle(net) ==
    /\ run.pc = "loop"
    /\ ~run.pong_pending
    /\ NoneSleepsThrough(run)
    /\ DClientSends(net, ClientMessage_Ping)
    /\ run' = [run EXCEPT !.pong_pending = TRUE,
                          !.timeouts = @ + 1,
                          !.waited = @ + recv_timeout(run.pong_pending)]

\* the loop of run: no datagram in time after a Ping
DClientTimedOut ==
    /\ obs = NoCall
    /\ dobs = NoEvent
    /\ run.pc = "loop"
    /\ run.pong_pending
    /\ NoneSleepsThrough(run)
    /\ run' = [run EXCEPT !.pc = "ended", !.err = "Connection timed out",
                          !.timeouts = @ + 1,
                          !.waited = @ + recv_timeout(run.pong_pending)]
    /\ UNCHANGED <<srvVars, cliVars, netVars, genVars, dsrvVars, dobs,
                   cdevices>>

\* the keep-alive task wakes after 50 ms
DClientKeepAlive(net) ==
    /\ run.keepalive
    /\ DClientSends(net, ClientMessage_KeepAlive)
    /\ run' = [run EXCEPT !.keepalive = FALSE]

\* the keep-alive task of a run that returned wakes: it holds the client
\* of that run and sends with its keys, from the socket of that run: the
\* datagram is on the network, and is not queued for the address of the
\* run that followed
DClientOrphanKeepAlive(net) ==
    /\ obs = NoCall
    /\ dobs = NoEvent
    /\ run.orphans # <<>>
    /\ \E r \in {client_send(Head(run.orphans),
                              serialize(ClientMessage_KeepAlive),
                              cliSends + 1)} :
         /\ r.res = "ok" => MayDraw(net)
         /\ cliSends' = IF r.res = "ok" THEN cliSends + 1 ELSE cliSends
         /\ obs' = Call("orphan", "send", ServerAddr,
                        serialize(ClientMessage_KeepAlive), Vacant, r.res,
                        <<>>, r.sent)
         /\ seen' = seen \cup {r.sent[x] : x \in DOMAIN r.sent}
    /\ run' = [run EXCEPT !.orphans = Tail(@)]
    /\ UNCHANGED <<session_keys, cliPc, cliConn, cliReply, toClient, toServer>>
    /\ UNCHANGED <<srvVars, genVars, dsrvVars, dobs, cdevices>>

\* the restart loop of main.rs: run returned Err, and run is called anew;
\* the handle of the keep-alive task was dropped with run, not cancelled
DClientRestart(net) ==
    /\ obs = NoCall
    /\ dobs = NoEvent
    /\ run.pc = "ended"
    /\ MayDraw(net)
    /\ session_keys' = None
    /\ cliPc' = "new"
    /\ cliReply' = None
    /\ run' = [RunStart EXCEPT
                  !.orphans = IF run.keepalive
                              THEN Append(run.orphans, session_keys)
                              ELSE run.orphans]
    /\ cdevices' = <<>>
    /\ toClient' = <<>>
    /\ UNCHANGED <<cliConn, cliSends, toServer, seen, obs>>
    /\ UNCHANGED <<srvVars, genVars, dsrvVars, dobs>>

\* server::run up to its loops: the devices evdev::enumerate gave are
\* numbered from 0 and a task is started for each
InitDaemon ==
    /\ InitCDGram
    /\ InitNoTest
    /\ devices \in {<<>>, [id \in {0} |-> Kbd]}
    /\ devTasks = DOMAIN devices
    /\ active_clients = [a \in Addrs |-> NoClient]
    /\ device_rx = <<>>
    /\ recvTask = "recv"
    /\ recvGot = NoGot
    /\ mainTask = MainLoop
    /\ replied = [a \in Addrs |-> {}]
    /\ dobs = NoEvent
    /\ run = RunStart
    /\ cdevices = <<>>

\* the receive task of the server
NextReceive(net) ==
    \/ RecvTaskRecv(net)
    \/ RecvTaskHandle(net)

\* the input of devices, and the main loop on it
NextInput(net) ==
    \/ \E id \in DevIds : DeviceInput(id)
    \/ MainInputEvent
    \/ MainBroadcast(net)

\* the client daemon while the server answers in time
NextClient(net) ==
    \/ DClientConnect(net)
    \/ DClientConnectRecv(net)
    \/ DClientSync(net)
    \/ DClientRecv(net)
    \/ DClientIdle(net)
    \/ DClientKeepAlive(net)

\* the client daemon runs out of time, and run is called anew
NextClientFails(net) ==
    \/ DClientGivesUp
    \/ DClientTimedOut
    \/ DClientRestart(net)
    \/ DClientOrphanKeepAlive(net)

\* clients that time out are removed
NextTimeouts ==
    \/ \E addr \in Addrs : TimerFires(addr)
    \/ MainTimeout
    \/ MainTimeoutRemove

\* devices come and go, and the monitor may fail
NextRegistry ==
    \/ \E id \in DevIds : DeviceDies(id)
    \/ \E dev \in HotPlugged : MonitorAdds(dev)
    \/ MonitorFails
    \/ MainRemoveDevice
    \/ MainNewDevice
    \/ MainMonitorError

\* the daemons over a network that loses, repeats and reorders: sessions
\* are made, fail and time out
NextDaemon ==
    \/ NextReceive("daemon")
    \/ NextClient("daemon")
    \/ NextClientFails("daemon")
    \/ NextTimeouts
    \/ Observed

\* the daemons over a network that does neither: devices come and go and
\* their input is forwarded
NextDevices ==
    \/ NextReceive("devices")
    \/ NextClient("devices")
    \/ NextInput("devices")
    \/ NextRegistry
    \/ Observed

\* the daemons over a network that loses nothing and keeps the order,
\* with a server that has no input to send: the client pings, and the
\* timeouts of both sides may elapse at any moment
NextRestart ==
    \/ NextReceive("restart")
    \/ NextClient("restart")
    \/ DClientCreateFails("restart")
    \/ DClientRestart("restart")
    \/ DClientOrphanKeepAlive("restart")
    \/ NextTimeouts
    \/ Observed

NextIdle ==
    \/ NextReceive("idle")
    \/ NextClient("idle")
    \/ DClientTimedOut
    \/ NextTimeouts
    \/ Observed

\* the server daemon alone, with the devices evdev::enumerate found:
\* devices come and go
InitRegistry ==
    /\ InitCDGram
    /\ InitNoTest
    /\ devices \in {[id \in 0 .. n - 1 |-> Kbd] : n \in 0 .. MaxEnumerated}
    /\ devTasks = DOMAIN devices
    /\ active_clients = [a \in Addrs |-> NoClient]
    /\ device_rx = <<>>
    /\ recvTask = "recv"
    /\ recvGot = NoGot
    /\ mainTask = MainLoop
    /\ replied = [a \in Addrs |-> {}]
    /\ dobs = NoEvent
    /\ run = RunStart
    /\ cdevices = <<>>

NextRegistryAlone ==
    \/ \E id \in 0 .. MaxEnumerated : DeviceDies(id)
    \/ \E id \in 0 .. MaxEnumerated : DeviceInput(id)
    \/ \E dev \in HotPlugged : MonitorAddsUpTo(dev, MaxEnumerated)
    \/ MonitorFails
    \/ MainRemoveDevice
    \/ MainNewDevice
    \/ MainMonitorError
    \/ MainInputEvent
    \/ MainBroadcast("registry")

SpecDaemon == InitDaemon /\ [][NextDaemon]_vars
SpecRegistry == InitRegistry /\ [][NextRegistryAlone]_vars
SpecDevices == InitDaemon /\ [][NextDevices]_vars
SpecIdle == InitDaemon /\ [][NextIdle]_vars
SpecRestart == InitDaemon /\ [][NextRestart]_vars
\* the same with timeout tasks that wake and a main loop that runs
SpecEvict ==
    /\ InitDaemon
    /\ [][NextIdle]_vars
    /\ WF_vars(\E addr \in Addrs : TimerFires(addr))
    /\ WF_vars(MainTimeout)
    /\ WF_vars(MainTimeoutRemove)
    /\ WF_vars(Observed)

(***************************************************************************)
(* ClientStates::handle_event on its own: a client with any devices        *)
(* synced, a registry of any devices, and every event.                     *)
(***************************************************************************)
\* the ids a client may name: those of the registry and one more
ClaimIds == 0 .. MaxDevices

\* the maps from some of ids to InputDevice
DeviceMaps(ids) == UNION {[s -> DeviceStates] : s \in SUBSET ids}

\* the events handle_event may be given
EventMenu ==
    {ClientPacket(ClientMessage_Sync(devs)) : devs \in DeviceMaps(ClaimIds)}
    \cup {ClientPacket(ClientMessage_KeepAlive), ClientPacket(ClientMessage_Ping)}
    \cup {InputEvent(id, "ev") : id \in ClaimIds}
    \cup {RemoveDevice(id) : id \in ClaimIds}
    \cup {NewDevice(id, dev) : id \in ClaimIds, dev \in DeviceStates}

\* g.handle_event(&event, &devices) for the client at ClientAddr
HandleEvent(event) ==
    /\ dobs = NoEvent
    /\ \E h \in {handle_event(active_clients[ClientAddr], event, devices)} :
         /\ active_clients' = [active_clients EXCEPT ![ClientAddr] = h.cs]
         /\ dobs' = Handling(event, ClientAddr, active_clients,
                             ClientAddr :> h.reply, ClientAddr :> "none")
    /\ UNCHANGED <<srvVars, cliVars, netVars, genVars, dcliVars>>
    /\ UNCHANGED <<devices, device_rx, recvTask, recvGot, mainTask, devTasks,
                   replied>>

InitEvent ==
    /\ InitCDGram
    /\ InitNoTest
    /\ devices \in DeviceMaps(DevIds)
    /\ \E synced \in SUBSET DevIds, timeout \in {"none", "armed", "fired"} :
         active_clients =
             [a \in Addrs |->
                 IF a = ClientAddr
                 THEN [ClientStates(a) EXCEPT
                          !.synced_devices = synced,
                          !.timeout = timeout,
                          !.sleeping = IF timeout = "armed" THEN 1 ELSE 0]
                 ELSE NoClient]
    /\ devTasks = DOMAIN devices
    /\ device_rx = <<>>
    /\ recvTask = "recv"
    /\ recvGot = NoGot
    /\ mainTask = MainLoop
    /\ replied = [a \in Addrs |-> {}]
    /\ dobs = NoEvent
    /\ run = RunStart
    /\ cdevices = <<>>

NextEvent ==
    \/ \E event \in EventMenu : HandleEvent(event)
    \/ Observed

SpecEvent == InitEvent /\ [][NextEvent]_vars

(***************************************************************************)
(* handle_packet of the client on its own (daemon/src/client.rs): a client *)
(* that holds any devices, every message, and the same message once more.  *)
(***************************************************************************)
\* Kbd with one field changed, for each field
KbdVariants ==
    {[Kbd EXCEPT !.name = "kbd2"], [Kbd EXCEPT !.key_bits = {"a"}],
     [Kbd EXCEPT !.rel_bits = {"x"}], [Kbd EXCEPT !.cap = {"key", "rel"}],
     [Kbd EXCEPT !.key_vals = {"a"}], [Kbd EXCEPT !.product = "k2"],
     [Kbd EXCEPT !.vendor = "v2"], [Kbd EXCEPT !.version = "2"]}

\* the messages handle_packet may be given
PacketMenu ==
    {ServerMessage_Sync(updates) :
        updates \in UNION {[s -> {Drop} \cup {Update(dev) :
                                      dev \in DeviceStates \cup KbdVariants}] :
                              s \in SUBSET ClaimIds}}
    \cup {ServerMessage_Event(id, "ev") : id \in ClaimIds}
    \cup {ServerMessage_Pong}

\* the devices handle_packet writes an event to
writes(pkt, devs) ==
    IF pkt.t = "Event" /\ pkt.id \in DOMAIN devs THEN {pkt.id} ELSE {}

\* what handle_packet did with pkt: the devices it created, destroyed and
\* wrote to
ServerPacket(pkt, devs, again) ==
    [e |-> "ServerPacket", pkt |-> pkt, created |-> creates(pkt, devs),
     destroyed |-> destroys(pkt, devs), written |-> writes(pkt, devs),
     again |-> again]

\* handle_packet(pkt, &mut devices), every create and write succeeding
DClientHandles(pkt, again) ==
    /\ cdevices' = handle_packet(pkt, cdevices)
    /\ dobs' = Handling(ServerPacket(pkt, cdevices, again), ServerAddr,
                        cdevices, <<>>, <<>>)
    /\ UNCHANGED <<srvVars, cliVars, netVars, genVars, dsrvVars, run>>

DClientHandlePacket(pkt) ==
    /\ dobs = NoEvent
    /\ DClientHandles(pkt, FALSE)

\* the same message comes once more
DClientHandleAgain ==
    /\ dobs.event.e = "ServerPacket"
    /\ ~dobs.event.again
    /\ DClientHandles(dobs.event.pkt, TRUE)

InitPacket ==
    /\ InitCDGram
    /\ InitNoTest
    /\ devices = <<>>
    /\ active_clients = [a \in Addrs |-> NoClient]
    /\ device_rx = <<>>
    /\ recvTask = "recv"
    /\ recvGot = NoGot
    /\ mainTask = MainLoop
    /\ devTasks = {}
    /\ replied = [a \in Addrs |-> {}]
    /\ dobs = NoEvent
    /\ run = RunStart
    /\ cdevices \in DeviceMaps(ClaimIds)

NextPacket ==
    \/ \E pkt \in PacketMenu : DClientHandlePacket(pkt)
    \/ DClientHandleAgain

SpecPacket == InitPacket /\ [][NextPacket]_vars

(***************************************************************************)
(* The codec of bit sets (daemon/src/proto.rs, mod fixedbitset).  A        *)
(* FixedBitSet is its length in bits and its blocks of 32 bits; a block is *)
(* the set of its bits that are on, 0 the lowest; bytes are numbers below  *)
(* 256.                                                                    *)
(***************************************************************************)
BlockBits == 8 * BlockBytes

\* FixedBitSet of length bits with the bits of set on
FixedBitSet(length, set) ==
    [length |-> length,
     data |-> [i \in 1 .. (length + BlockBits - 1) \div BlockBits |->
                  {b \in 0 .. BlockBits - 1 :
                      (i - 1) * BlockBits + b \in set}]]

\* FixedBitSet::with_capacity(bits)
with_capacity(bits) == FixedBitSet(bits, {})

\* byte j (0 the lowest) of a block, little endian
ByteOf(block, j) ==
    Sum([t \in 1 .. 8 |-> IF 8 * j + t - 1 \in block THEN 2 ^ (t - 1) ELSE 0])

\* the bits of a block that byte j brings
BitsOf(byte, j) == {8 * j + t : t \in {u \in 0 .. 7 : (byte \div 2 ^ u) % 2 = 1}}

\* LittleEndian::write_u32_into(src, dst): the bytes of dst after it
write_u32_into(src) ==
    [k \in 1 .. Len(src) * BlockBytes |->
        ByteOf(src[(k - 1) \div BlockBytes + 1], (k - 1) % BlockBytes)]

\* LittleEndian::read_u32_into(src, dst): the blocks of dst after it
read_u32_into(src) ==
    [i \in 1 .. Len(src) \div BlockBytes |->
        UNION {BitsOf(src[(i - 1) * BlockBytes + j + 1], j) :
                  j \in 0 .. BlockBytes - 1}]

\* fixedbitset::serialize: the byte array given to serialize_bytes
fixedbitset_serialize(v) == write_u32_into(v.data)

\* fixedbitset::deserialize of a byte array
fixedbitset_deserialize(cow) ==
    IF Len(cow) % BlockBytes # 0
    THEN [res |-> "byte array not aligned", val |-> with_capacity(0)]
    ELSE [res |-> "ok",
          val |-> [with_capacity(Len(cow) * 8) EXCEPT
                      !.data = read_u32_into(cow)]]

\* the bit sets the codec is tried on: every length up to MaxBlocks
\* blocks, with bits at the ends of bytes and of blocks
ProbeBits == {0, 7, 8} \cup {BlockBits * i - 1 : i \in 1 .. MaxBlocks}
                       \cup {BlockBits * i : i \in 1 .. MaxBlocks - 1}
CodecBitsets ==
    {FixedBitSet(n, {b \in set : b < n}) :
        n \in 0 .. MaxBlocks * BlockBits, set \in SUBSET ProbeBits}

\* the byte arrays deserialize is tried on, beside those serialize made
ProbeBytes == {0, 1, 128, 255}
CodecBytes ==
    UNION {[1 .. n -> ProbeBytes] : n \in 0 .. BlockBytes + 1}

\* the codec at work: a bit set v, the byte array, what deserialize
\* returned
Codec(pc, v, bytes, out) == [pc |-> pc, v |-> v, bytes |-> bytes, out |-> out]
NoOut == [res |-> "none", val |-> with_capacity(0)]

\* serialize of the bit set
CodecSerialize ==
    /\ codec.pc = "new"
    /\ codec' = Codec("serialized", codec.v, fixedbitset_serialize(codec.v),
                      NoOut)
    /\ UNCHANGED <<srvVars, cliVars, netVars, dsrvVars, dcliVars, dobs>>
    /\ UNCHANGED <<mf, fed, ret, used, locks>>

\* a byte array comes from a peer
CodecReceive(bytes) ==
    /\ codec.pc = "new"
    /\ codec.v = with_capacity(0)
    /\ codec' = Codec("received", codec.v, bytes, NoOut)
    /\ UNCHANGED <<srvVars, cliVars, netVars, dsrvVars, dcliVars, dobs>>
    /\ UNCHANGED <<mf, fed, ret, used, locks>>

\* deserialize of the byte array
CodecDeserialize ==
    /\ codec.pc \in {"serialized", "received"}
    /\ codec' = [codec EXCEPT
                    !.pc = IF @ = "serialized" THEN "round trip" ELSE "read",
                    !.out = fixedbitset_deserialize(codec.bytes)]
    /\ UNCHANGED <<srvVars, cliVars, netVars, dsrvVars, dcliVars, dobs>>
    /\ UNCHANGED <<mf, fed, ret, used, locks>>

InitCodec ==
    /\ InitCDGram
    /\ InitNoDaemon
    /\ mf = Generator_new
    /\ fed = <<>>
    /\ ret = NoRet
    /\ used = "fresh"
    /\ codec \in {Codec("new", v, <<>>, NoOut) : v \in CodecBitsets}
    /\ locks = NoLocks

NextCodec ==
    \/ CodecSerialize
    \/ \E bytes \in CodecBytes : CodecReceive(bytes)
    \/ CodecDeserialize

SpecCodec == InitCodec /\ [][NextCodec]_vars

(***************************************************************************)
(* The two locks of the server daemon (daemon/src/server.rs, run): the     *)
(* receive task and the main loop, followed from one point where they may  *)
(* be suspended to the next, with the guards each holds in the order it    *)
(* took them.  A guard bound by `let` lives to the end of its block; a     *)
(* temporary guard lives to the end of its statement, and the temporaries  *)
(* of the scrutinee of an `if let` and of the iterator of a `for` live to  *)
(* the end of the `if let` and of the `for`.                               *)
(***************************************************************************)
\* the control messages the main loop takes
ControlArms == {"RemoveDevice", "MonitorNewDevice", "MonitorError", "Event",
                "Timeout"}

\* task t holds the guard of lock l
Holds(t, l) == \E i \in DOMAIN locks.held[t] : locks.held[t][i] = l

\* Mutex::lock().await returns when no guard of the lock is alive
Free(l) == \A t \in LockTasks : ~Holds(t, l)

\* a lock that gives no guard
lock_nothing(held, l) == held

\* the guard Mutex::lock().await returned is alive
lock(held, l) == Append(held, l)

\* the guard taken last is dropped
drop_last(held) == SubSeq(held, 1, Len(held) - 1)

\* the statement ends and its temporary guard lives on
temporary_kept(held) == held

\* the statement ends: its temporary guard is dropped
drop_temporary(held) == drop_last(held)

\* the receive task, from server.recv to the end of an iteration
LockRecvTask ==
    /\ \/ /\ locks.recv = "recv"
          /\ \E ok \in BOOLEAN :
               locks' = [locks EXCEPT
                           !.recv = IF ok THEN "lock_clients" ELSE "ended"]
       \/ /\ locks.recv = "lock_clients"
          /\ Free("active_clients")
          /\ \E new \in BOOLEAN :
               /\ IF new THEN locks.clients < MaxLockClients
                         ELSE locks.clients > 0
               /\ locks' = [locks EXCEPT
                              !.held.recv = lock(@, "active_clients"),
                              !.clients = IF new THEN @ + 1 ELSE @,
                              !.recv = "lock_devices"]
       \/ /\ locks.recv = "lock_devices"
          /\ Free("devices")
          /\ locks' = [locks EXCEPT !.held.recv = lock(@, "devices"),
                                    !.recv = "handle"]
       \/ /\ locks.recv = "handle"
          /\ \E reply \in BOOLEAN :
               locks' = IF reply
                        THEN [locks EXCEPT !.recv = "send"]
                        ELSE [locks EXCEPT !.recv = "recv",
                                           !.held.recv = <<>>]
       \/ /\ locks.recv = "send"
          /\ locks' = [locks EXCEPT !.recv = "recv", !.held.recv = <<>>]
    /\ UNCHANGED <<srvVars, cliVars, netVars, dsrvVars, dcliVars, dobs>>
    /\ UNCHANGED <<mf, fed, ret, used, codec>>

\* the main loop, from device_rx.recv to `continue` or to the end of the
\* broadcast
LockMainLoop ==
    /\ \/ /\ locks.main = "wait"
          /\ \E arm \in ControlArms :
               /\ arm = "Timeout" => locks.clients > 0
               /\ locks' = [locks EXCEPT
                     !.event = IF arm \in {"MonitorError", "Timeout"}
                               THEN "none" ELSE arm,
                     !.main = CASE arm = "RemoveDevice" -> "remove"
                                [] arm = "MonitorNewDevice" -> "len"
                                [] arm = "MonitorError" -> "ended"
                                [] arm = "Event" -> "broadcast"
                                [] arm = "Timeout" -> "close"]
       \/ /\ locks.main \in {"remove", "len", "insert"}
          /\ Free("devices")
          /\ locks' = [locks EXCEPT
                         !.held.main = drop_temporary(lock(@, "devices")),
                         !.main = IF @ = "len" THEN "insert"
                                  ELSE "broadcast"]
       \/ /\ locks.main = "close"
          /\ locks' = [locks EXCEPT !.main = "timeout"]
       \/ /\ locks.main = "timeout"
          /\ Free("active_clients")
          /\ locks' = [locks EXCEPT
                         !.held.main =
                             drop_temporary(lock(@, "active_clients")),
                         !.clients = @ - 1,
                         !.main = "wait"]
       \/ /\ locks.main = "broadcast"
          /\ Free("active_clients")
          /\ locks' = [locks EXCEPT
                         !.held.main = lock(@, "active_clients"),
                         !.left = locks.clients,
                         !.main = "next"]
       \/ /\ locks.main = "next"
          /\ locks.left = 0
          /\ locks' = [locks EXCEPT !.held.main = drop_last(@),
                                    !.event = "none",
                                    !.main = "wait"]
       \/ /\ locks.main = "next"
          /\ locks.left > 0
          /\ Free("devices")
          /\ locks' = [locks EXCEPT !.held.main = lock(@, "devices"),
                                    !.main = "handle"]
       \/ /\ locks.main = "handle"
          /\ \E reply \in BOOLEAN :
               locks' = IF reply
                        THEN [locks EXCEPT !.main = "send"]
                        ELSE [locks EXCEPT !.held.main = drop_last(@),
                                           !.left = @ - 1,
                                           !.main = "next"]
       \/ /\ locks.main = "send"
          /\ locks' = [locks EXCEPT !.held.main = drop_last(@),
                                    !.left = @ - 1,
                                    !.main = "next"]
    /\ UNCHANGED <<srvVars, cliVars, netVars, dsrvVars, dcliVars, dobs>>
    /\ UNCHANGED <<mf, fed, ret, used, codec>>

InitLocks ==
    /\ InitCDGram
    /\ InitNoDaemon
    /\ mf = Generator_new
    /\ fed = <<>>
    /\ ret = NoRet
    /\ used = "fresh"
    /\ codec = NoCodec
    /\ locks = LocksStart

NextLocks ==
    \/ LockRecvTask
    \/ LockMainLoop

SpecLocks == InitLocks /\ [][NextLocks]_vars

(***************************************************************************)
(* Properties.                                                             *)
(***************************************************************************)
\* the call obs records is a turn of server.recv on a datagram from an
\* address whose entry was st
ServerRecvOn(st) ==
    /\ obs.who = "server"
    /\ obs.op = "recv"
    /\ obs.was.st = st

\* the call obs records is a connect that returned
ConnectReturned ==
    /\ obs.who = "client"
    /\ obs.op = "connect"
    /\ obs.res # "pending"

\* client.send(p) returned Ok
ClientSent(p) ==
    /\ obs.who = "client"
    /\ obs.op = "send"
    /\ obs.res = "ok"
    /\ obs.buf = <<Data(p)>>

\* server.recv returned Ok((client_addr, p))
ServerReceived(p) ==
    /\ obs.who = "server"
    /\ obs.op = "recv"
    /\ obs.res = "ok"
    /\ obs.addr = ClientAddr
    /\ obs.val = <<Data(p)>>

\* server.send(client_addr, q) returned Ok
ServerSent(q) ==
    /\ obs.who = "server"
    /\ obs.op = "send"
    /\ obs.res = "ok"
    /\ obs.addr = ClientAddr
    /\ obs.buf = <<Data(q)>>

\* client.recv returned Ok(q)
ClientReceived(q) ==
    /\ obs.who = "client"
    /\ obs.op = "recv"
    /\ obs.res = "ok"
    /\ obs.val = <<Data(q)>>

\* C1: the happy path.  With the key of the client authorized and the
\* datagrams delivered in order and without loss, connect returns Ok, and
\* once the server has processed the third packet it holds Completed for
\* the address of the client; from then on a payload p that client.send
\* took is returned by server.recv as (client_addr, p), and a payload q
\* that server.send(client_addr, q) took is returned by client.recv.
C1_HappyPath ==
    /\ <>(ConnectReturned /\ obs.res = "ok")
    /\ <>(ServerRecvOn("Initiated") /\ obs.addr = ClientAddr)
    /\ [](ServerRecvOn("Initiated") /\ obs.addr = ClientAddr
             => auth_states[ClientAddr].st = "Completed")
    /\ \A p \in Payloads : ClientSent(p) ~> ServerReceived(p)
    /\ \A q \in Payloads : ServerSent(q) ~> ClientReceived(q)

\* the client received a payload of the server after the server received
\* one of the client
C1_Witness ==
    /\ ClientReceived("q")
    /\ cliSends > 0
    /\ toServer = <<>>
    /\ auth_states[ClientAddr].st = "Completed"

\* the public key the first packet of the handshake of address a named
FirstPacketKey(a) == FromSlice(Slice(hs[a].first, 0, BOXPK))

\* the key exchange public key in the first packet of the handshake of a
FirstPacketKx(a) == FromSlice(Slice(hs[a].first, BOXPK, BOXPK + KXPK))

\* the server holds Completed for a, and the connect of the client returned
\* Ok, for the same handshake: the handshake of a began with the first
\* packet of this connect, and the reply this connect accepted is the
\* reply of that handshake
SameHandshake(a) ==
    /\ auth_states[a].st = "Completed"
    /\ session_keys # None
    /\ hs[a].first = connect_pkt1(cliConn)
    /\ cliReply = Some(hs[a].second)

\* C2: key agreement.  Whenever the server holds Completed((rx, tx)) for an
\* address and the connect of the client returned Ok for the same
\* handshake, the tx key of the client is the rx key of the server and the
\* rx key of the client is the tx key of the server.
C2_KeyAgreement ==
    \A a \in Addrs :
        SameHandshake(a) =>
            /\ session_keys[1].tx = auth_states[a].rx
            /\ session_keys[1].rx = auth_states[a].tx

\* a session completed on both sides of one handshake, on the address of
\* the client
C2_Witness == SameHandshake(ClientAddr)

\* a datagram of the length of a first packet whose first 32 bytes are the
\* key pk was handled for an address with no entry
FirstPacketHandled(pk) ==
    /\ obs.who = "server"
    /\ obs.op = "recv"
    /\ obs.was.st = "Vacant"
    /\ PLen(obs.buf) = BOXPK + KXPK + CH
    /\ FromSlice(Slice(obs.buf, 0, BOXPK)) = pk

\* C3: the server never holds Initiated or Completed for an address whose
\* first handshake packet carried a public key outside the authorized set,
\* whatever datagrams arrived from whatever addresses.
C3_OnlyAuthorizedEntries ==
    \A a \in Addrs :
        auth_states[a].st # "Vacant" => FirstPacketKey(a) \in authorized_keys

\* a well-formed first packet with the key of the attacker was handled
\* while the other address holds Completed, and its address has no entry
C3_Witness ==
    /\ FirstPacketHandled(PK("E"))
    /\ auth_states[obs.addr].st = "Vacant"
    /\ \E a \in Addrs : auth_states[a].st = "Completed"

\* the sealed box of the third packet the server accepted for a
AcceptedBox(a) == hs[a].third[2]

\* C4: proof of possession.  The server moves an address to Completed only
\* if the third packet it accepted was sealed, for the server challenge of
\* this handshake, by a party that holds the secret key of the authorized
\* public key the first packet named; a sender that knows only the public
\* key never drives an address to Completed.
C4_ProofOfPossession ==
    \A a \in Addrs :
        auth_states[a].st = "Completed" =>
            /\ FirstPacketKey(a) = PK(AcceptedBox(a).by)
            /\ AcceptedBox(a).m = Slice(hs[a].second, 0, CH)

\* C5: session keys are bound to the authenticated peers.  When the server
\* holds Completed for an address, the key exchange key it derived its
\* session keys from is one the client generated; when the connect of the
\* client returned Ok, the key exchange key it used is one the server
\* generated; the attacker, who holds neither long-term secret, can
\* compute no session key the server or the client holds.
C5_SessionKeysBound ==
    /\ \A a \in Addrs :
           auth_states[a].st = "Completed" =>
               /\ FirstPacketKx(a).k[1] = "c"
               /\ ~AttackerDerives(auth_states[a].rx)
               /\ ~AttackerDerives(auth_states[a].tx)
    /\ session_keys # None =>
           /\ FromSlice(Slice(cliReply[1], CH, CH + KXPK)).k[1] = "s"
           /\ ~AttackerDerives(session_keys[1].rx)
           /\ ~AttackerDerives(session_keys[1].tx)

\* the reply proves the server to the connect numbered i: it has the
\* length of the second packet, and its sealed part opens under the public
\* key of the server and the secret key of the client to the challenge of
\* this connect
ReplyProvesServer(reply, i) ==
    /\ PLen(reply) = CH + KXPK + NONCE + CH + MAC
    /\ box_open(Slice(reply, CH + KXPK + NONCE, PLen(reply)),
                FromSlice(Slice(reply, CH + KXPK, CH + KXPK + NONCE)),
                PK(ServerId), ClientId) = <<<<Chal(<<"c", i>>)>>>>

\* C6: the client authenticates the server.  connect returns Ok only if
\* the reply has the length of the second packet and its sealed part opens
\* under (server public key, client secret key) to the challenge of this
\* connect; otherwise connect returns an error, sends no third packet and
\* leaves session_keys absent.
C6_ServerAuthenticated ==
    ConnectReturned =>
        /\ obs.res = "ok" => ReplyProvesServer(obs.buf, cliConn)
        /\ ~ReplyProvesServer(obs.buf, cliConn) =>
               /\ obs.res # "ok"
               /\ obs.sent = <<>>
               /\ session_keys = None

\* connect refused a reply whose sealed part opened, under the right
\* keys, to another challenge
C6_Witness ==
    /\ ConnectReturned
    /\ obs.res = "Server reponse doesn't match the challenge"
    /\ session_keys = None

\* the datagram of the turn obs records came from an address with no entry
\* and is shorter than a public key, or its first 32 bytes are not an
\* authorized key
DroppedFirst ==
    /\ ServerRecvOn("Vacant")
    /\ \/ PLen(obs.buf) < BOXPK
       \/ FromSlice(Slice(obs.buf, 0, BOXPK)) \notin authorized_keys

\* C7: an unauthorized or too short first datagram is dropped in silence.
\* The turn of recv on a datagram from an address with no entry that is
\* shorter than 32 bytes, or whose first 32 bytes are not an authorized
\* public key, leaves auth_states as it was, sends no datagram, and recv
\* does not return.
C7_SilentDrop ==
    [][DroppedFirst' =>
           /\ auth_states' = auth_states
           /\ seen' = seen
           /\ obs'.sent = <<>>
           /\ obs'.res = "continue"]_vars

\* a datagram shorter than a key was dropped while the server held an
\* entry for the other address
C7_Witness ==
    /\ DroppedFirst
    /\ PLen(obs.buf) < BOXPK
    /\ \E a \in Addrs : auth_states[a].st # "Vacant"

\* the third packet buf answers the handshake g: it has the length of the
\* third packet and its box opens, under the key the first packet named,
\* to the challenge the handshake issued
ThirdPacketAnswers(g, buf) ==
    /\ PLen(buf) = NONCE + CH + MAC
    /\ box_open(Slice(buf, NONCE, PLen(buf)), FromSlice(Slice(buf, 0, NONCE)),
                g.loc.client_pk, ServerId) = <<<<Chal(<<"s", g.loc.j>>)>>>>

\* the turn obs records handled a datagram from an address with no entry
\* whose first 32 bytes are an authorized key and whose length is n
AuthorizedFirst(n) ==
    /\ ServerRecvOn("Vacant")
    /\ PLen(obs.buf) = n
    /\ FromSlice(Slice(obs.buf, 0, BOXPK)) \in authorized_keys

\* the turn obs records sent the second packet, with the challenge drawn
\* last, to the address the datagram came from, which holds Initiated
HandshakeStarted ==
    /\ auth_states[obs.addr].st = "Initiated"
    /\ Len(obs.sent) = 1
    /\ obs.sent[1].dst = obs.addr
    /\ PLen(obs.sent[1].pkt) = CH + KXPK + NONCE + CH + MAC
    /\ Slice(obs.sent[1].pkt, 0, CH) = <<Chal(<<"s", srvRand>>)>>

\* C8: every failure of a handshake (a first or a third packet of the
\* wrong length, a box in the third packet that does not open, an opened
\* response that is not the challenge issued) removes the entry of the
\* address, and a well-formed first packet with an authorized key from an
\* address without an entry, whatever failed at the address before, starts
\* a fresh handshake, which can complete.
C8_FailureRemovesEntry ==
    /\ AuthorizedFirst(PLen(obs.buf)) /\ PLen(obs.buf) # BOXPK + KXPK + CH
           => auth_states[obs.addr].st = "Vacant"
    /\ ServerRecvOn("Initiated") /\ ~ThirdPacketAnswers(obs.was.g, obs.buf)
           => auth_states[obs.addr].st = "Vacant"
    /\ AuthorizedFirst(BOXPK + KXPK + CH) => HandshakeStarted

\* the address of the client holds Completed after a handshake of the
\* address failed on its third packet
C8_Witness ==
    /\ auth_states[ClientAddr].st = "Completed"
    /\ hs[ClientAddr].failed

\* C9: the boundary of the length of the first packet.  A first packet
\* with an authorized key of exactly BOXPK + KXPK + CH (96) bytes is
\* accepted: the server sends the second packet and holds Initiated for
\* the address; a first packet one byte shorter or longer gets no reply
\* and leaves no entry for the address.
C9_FirstPacketLength ==
    /\ AuthorizedFirst(BOXPK + KXPK + CH) => HandshakeStarted
    /\ AuthorizedFirst(BOXPK + KXPK + CH - 1) \/ AuthorizedFirst(BOXPK + KXPK + CH + 1)
           => /\ obs.sent = <<>>
              /\ auth_states[obs.addr].st = "Vacant"

\* a first packet of 97 bytes with the authorized key was dropped, while
\* the other address holds Initiated from a first packet of 96 bytes
C9_Witness ==
    /\ AuthorizedFirst(BOXPK + KXPK + CH + 1)
    /\ auth_states[obs.addr].st = "Vacant"
    /\ \E a \in Addrs :
           /\ auth_states[a].st = "Initiated"
           /\ PLen(hs[a].first) = BOXPK + KXPK + CH

\* C10: no failure oracle.  A turn of recv sends a datagram only as the
\* second packet, to the sender of a first packet of the right length
\* with an authorized key; for an unauthorized key, a malformed packet or
\* a failed third packet it sends nothing.
C10_NoFailureOracle ==
    obs.who = "server" /\ obs.op = "recv" /\ obs.sent # <<>> =>
        /\ AuthorizedFirst(BOXPK + KXPK + CH)
        /\ Len(obs.sent) = 1
        /\ obs.sent[1].dst = obs.addr
        /\ PLen(obs.sent[1].pkt) = CH + KXPK + NONCE + CH + MAC

\* a third packet of the right length failed: nothing was sent and the
\* entry is gone
C10_Witness ==
    /\ ServerRecvOn("Initiated")
    /\ PLen(obs.buf) = NONCE + CH + MAC
    /\ auth_states[obs.addr].st = "Vacant"
    /\ obs.sent = <<>>

\* the datagram buf carries a payload sealed under key: its first 24 bytes
\* are the nonce and the rest opens under key with that nonce
Opens(buf, key) ==
    /\ PLen(buf) >= NONCE
    /\ aead_open(Slice(buf, NONCE, PLen(buf)), FromSlice(Slice(buf, 0, NONCE)),
                 key) # <<>>

\* C11: a tampered payload.  When a datagram of at least 24 bytes from an
\* address that holds Completed does not open under the rx key held, recv
\* returns an error and the entry of the address (Completed, the same keys)
\* stays; a turn of recv changes the entry of no other address, and it
\* removes an entry only when the entry is Initiated and the datagram
\* fails the handshake.
C11_TamperedPayload ==
    [][obs'.who = "server" /\ obs'.op = "recv" =>
           \A a \in Addrs :
               /\ a # obs'.addr => auth_states'[a] = auth_states[a]
               /\ (/\ a = obs'.addr
                   /\ auth_states[a].st = "Completed"
                   /\ PLen(obs'.buf) >= NONCE
                   /\ ~Opens(obs'.buf, auth_states[a].rx))
                      => /\ obs'.res = "err"
                         /\ auth_states'[a] = auth_states[a]
               /\ (auth_states[a].st # "Vacant" /\ auth_states'[a].st = "Vacant")
                      => /\ auth_states[a].st = "Initiated"
                         /\ ~ThirdPacketAnswers(auth_states[a].g, obs'.buf)]_vars

\* recv returned an error on a datagram of 40 bytes from an address that
\* holds Completed, and the address still holds Completed
C11_Witness ==
    /\ ServerRecvOn("Completed")
    /\ PLen(obs.buf) = NONCE + MAC
    /\ obs.res = "err"
    /\ auth_states[obs.addr] = obs.was
\* C12: a decryption failure ends the handling of that datagram only.
\* After recv of the server returned an error on a payload that does not
\* open, the receive task of the daemon is at server.recv again, and after
\* recv of the client returned its decryption error, run is in its loop.
C12_DecryptFailureNotTerminal ==
    /\ (ServerRecvOn("Completed") /\ obs.res = "err") => recvTask = "recv"
    /\ (/\ obs.who = "client"
        /\ obs.op = "recv"
        /\ obs.res = "Failed to decrypt server message") => run.pc = "loop"

\* C13: send(addr, p) seals and transmits only for an address that holds
\* Completed: one datagram, to addr, nonce then the payload sealed under
\* the tx key held.  For an address that holds Initiated it returns the
\* error of a handshake in progress, for an address with no entry the
\* error of an unknown client; in both cases nothing is sent.  In every
\* case auth_states is as it was.
C13_SendNeedsCompleted ==
    [][obs'.who = "server" /\ obs'.op = "send" =>
           /\ auth_states' = auth_states
           /\ auth_states[obs'.addr].st = "Completed" =>
                  /\ obs'.res = "ok"
                  /\ Len(obs'.sent) = 1
                  /\ obs'.sent[1].dst = obs'.addr
                  /\ aead_open(Slice(obs'.sent[1].pkt, NONCE,
                                     PLen(obs'.sent[1].pkt)),
                               FromSlice(Slice(obs'.sent[1].pkt, 0, NONCE)),
                               auth_states[obs'.addr].tx) = <<obs'.buf>>
           /\ auth_states[obs'.addr].st = "Initiated" =>
                  /\ obs'.res = "in handshake"
                  /\ obs'.sent = <<>>
                  /\ seen' = seen
           /\ auth_states[obs'.addr].st = "Vacant" =>
                  /\ obs'.res = "unknown client"
                  /\ obs'.sent = <<>>
                  /\ seen' = seen]_vars

\* send to an address in the middle of a handshake returned its error
\* while the other address has no entry
C13_Witness ==
    /\ obs.who = "server"
    /\ obs.op = "send"
    /\ obs.res = "in handshake"
    /\ auth_states[obs.addr].st = "Initiated"
    /\ \E a \in Addrs : auth_states[a].st = "Vacant"

\* C14: close(addr) removes the entry of the peer.  After close the
\* address has no entry; send to it, while no datagram of it was handled
\* since, returns the unknown-client error and sends nothing; and the
\* first datagram from it after close is handled as a first packet: recv
\* returns nothing for it, an unauthorized or short one is dropped, and a
\* well-formed one with an authorized key starts a handshake with a new
\* challenge.
C14_CloseRemovesEntry ==
    /\ (obs.who = "server" /\ obs.op = "close")
           => auth_states[obs.addr] = Vacant
    /\ (obs.who = "server" /\ obs.op = "send"
            /\ hs[obs.addr].closed = "closed")
           => obs.res = "unknown client" /\ obs.sent = <<>>
    /\ (obs.who = "server" /\ obs.op = "recv"
            /\ hs[obs.addr].closed = "after")
           => /\ obs.was = Vacant
              /\ obs.res = "continue"
              /\ obs.val = <<>>
              /\ DroppedFirst
                     => auth_states[obs.addr] = Vacant /\ obs.sent = <<>>
              /\ AuthorizedFirst(BOXPK + KXPK + CH) => HandshakeStarted

\* the first datagram after the close of a Completed entry carries a
\* payload that opens under the rx key of that entry, and recv did not
\* return it
C14_Witness ==
    /\ obs.who = "server"
    /\ obs.op = "recv"
    /\ hs[obs.addr].closed = "after"
    /\ hs[obs.addr].old.st = "Completed"
    /\ Opens(obs.buf, hs[obs.addr].old.rx)
    /\ obs.res = "continue"

\* C15: while session_keys is None (no connect was made, or connect
\* returned an error) send and recv of the client return the error of a
\* client not connected; nothing is sent, no datagram is taken from the
\* socket, and session_keys stays None.
C15_NotConnected ==
    [][session_keys = None /\ obs'.who = "client"
           /\ obs'.op \in {"send", "recv"} =>
               /\ obs'.res = "Client not connected yet"
               /\ obs'.sent = <<>>
               /\ obs'.val = <<>>
               /\ seen' = seen
               /\ toServer' = toServer
               /\ toClient' = toClient
               /\ session_keys' = None]_vars

\* send returned the error after a connect that returned an error
C15_Witness ==
    /\ obs.who = "client"
    /\ obs.op = "send"
    /\ obs.res = "Client not connected yet"
    /\ cliPc = "returned"
    /\ session_keys = None

\* C16: the contract of the driver.  For a generator with n yield points
\* that is started once and then turned: start returns Left(Some(v)) with
\* v the first value yielded; each of the next n - 1 turns returns Left
\* of the next value yielded; the n-th turn returns Right of the result;
\* and the values the yields of the generator returned are the values
\* fed, in the order fed (two yields fed 1 then 2 give 3).
C16_DriverContract ==
    used = "proper" =>
        /\ mf.loc.got = fed
        /\ ret.call = "start" =>
               /\ ret.side = "Left"
               /\ ret.left = Some(1)
        /\ ret.call = "turn" /\ Len(fed) < mf.loc.n =>
               /\ ret.side = "Left"
               /\ ret.left = Len(fed) + 1
        /\ ret.call = "turn" /\ Len(fed) = mf.loc.n =>
               /\ ret.side = "Right"
               /\ ret.right = Sum(fed)
        /\ mf.loc.n = 2 /\ fed = <<1, 2>> => ret.right = 3

\* the generator with two yields, started and fed 1 then 2, returned 3
C16_Witness ==
    /\ used = "proper"
    /\ mf.loc.n = 2
    /\ fed = <<1, 2>>
    /\ ret.side = "Right"
    /\ ret.right = 3

\* C17: whatever datagrams (of arbitrary bytes, of keys, challenges and
\* boxes it can make or has seen, of any length) a sender that holds an
\* authorized public key and not its secret key sends from one address,
\* recv of the server does not return, with a payload or with an error,
\* and does not panic; the address never holds Completed.
C17_FuzzNeverReturns ==
    /\ ~srvDead
    /\ auth_states[ClientAddr].st # "Completed"
    /\ obs.who = "server" /\ obs.op = "recv" => obs.res = "continue"

\* the sender answered a handshake with the box of the reply of the
\* server, and the handshake failed
C17_Witness ==
    /\ ServerRecvOn("Initiated")
    /\ Len(obs.buf) = 2
    /\ obs.buf[2].t = "box"
    /\ obs.buf[2].by = ServerId
    /\ obs.res = "continue"
    /\ auth_states[ClientAddr].st = "Vacant"

\* the reply made for the client at a in the handling dobs records is an
\* Event message
EventReply(a) ==
    /\ dobs.replies[a] # None
    /\ dobs.replies[a][1].t = "Event"

\* C18: input goes only to clients that synced the device.  Whenever an
\* Event message is made for a client, the event handled is the input of a
\* device, the message names that device, and the id of the device is in
\* synced_devices of the client as handle_event found it; for a client
\* without the id no reply is made.
C18_InputOnlyToSynced ==
    \A a \in DOMAIN dobs.replies :
        /\ EventReply(a)
               => /\ dobs.event.e = "InputEvent"
                  /\ dobs.replies[a][1].id = dobs.event.id
                  /\ dobs.event.id \in dobs.before[a].synced_devices
        /\ (dobs.event.e = "InputEvent"
                /\ dobs.event.id \notin dobs.before[a].synced_devices)
               => dobs.replies[a] = None

\* the input of a device was handled for a client that has not synced it,
\* and nothing was made for the client
C18_Witness ==
    /\ dobs.event.e = "InputEvent"
    /\ \E a \in DOMAIN dobs.replies :
         /\ dobs.event.id \notin dobs.before[a].synced_devices
         /\ dobs.replies[a] = None

\* C19: an Event follows a Sync.  Whenever server.send returned Ok for an
\* Event message for device id to a client, and whenever client.recv
\* returned an Event message for device id, the server had replied to a
\* Sync of that client with a Sync that holds an entry for id.
C19_EventAfterSync ==
    /\ \A a \in DOMAIN dobs.replies :
           (EventReply(a) /\ dobs.sends[a] = "ok")
               => dobs.replies[a][1].id \in replied[a]
    /\ (/\ obs.who = "client"
        /\ obs.op = "recv"
        /\ obs.res = "ok"
        /\ deserialize_server(obs.val) # None
        /\ deserialize_server(obs.val)[1].t = "Event")
           => deserialize_server(obs.val)[1].id \in replied[ClientAddr]

\* run of the client got an Event message from client.recv
C19_Witness ==
    /\ obs.who = "client"
    /\ obs.op = "recv"
    /\ obs.res = "ok"
    /\ deserialize_server(obs.val) # None
    /\ deserialize_server(obs.val)[1].t = "Event"

\* C20: the reply to a Sync carries the registry.  When a Sync names an
\* id that the registry holds with another InputDevice, the entry of the
\* reply for that id is Update with the InputDevice of the registry.
C20_SyncRepliesRegistry ==
    (dobs.event.e = "ClientPacket" /\ dobs.event.msg.t = "Sync")
        => \A a \in DOMAIN dobs.replies :
           \A id \in DOMAIN dobs.event.msg.devs \cap DOMAIN devices :
               dobs.event.msg.devs[id] # devices[id]
                   => /\ dobs.replies[a] # None
                      /\ dobs.replies[a][1].t = "Sync"
                      /\ id \in DOMAIN dobs.replies[a][1].updates
                      /\ dobs.replies[a][1].updates[id] = Update(devices[id])

\* the event dobs records is a Sync of a client
SyncHandled == dobs.event.e = "ClientPacket" /\ dobs.event.msg.t = "Sync"

\* C21: the reply to a Sync.  Handling Sync(devs) of a client makes a Sync
\* reply that holds Drop for every id of devs the registry does not hold
\* and Update with the InputDevice of the registry for every id of the
\* registry that devs does not name, and leaves synced_devices of the
\* client equal to the set of keys of the registry.
C21_SyncReply ==
    SyncHandled
        => \A a \in DOMAIN dobs.replies :
             /\ dobs.replies[a] # None
             /\ dobs.replies[a][1].t = "Sync"
             /\ \A id \in DOMAIN dobs.event.msg.devs \ DOMAIN devices :
                  /\ id \in DOMAIN dobs.replies[a][1].updates
                  /\ dobs.replies[a][1].updates[id] = Drop
             /\ \A id \in DOMAIN devices \ DOMAIN dobs.event.msg.devs :
                  /\ id \in DOMAIN dobs.replies[a][1].updates
                  /\ dobs.replies[a][1].updates[id] = Update(devices[id])
             /\ active_clients[a].synced_devices = DOMAIN devices

\* a Sync was handled that names an id the registry does not hold and
\* leaves out one it holds, for a client that had synced another set
C21_Witness ==
    /\ SyncHandled
    /\ DOMAIN dobs.event.msg.devs \ DOMAIN devices # {}
    /\ DOMAIN devices \ DOMAIN dobs.event.msg.devs # {}
    /\ dobs.before[ClientAddr].synced_devices # DOMAIN devices
    /\ dobs.replies[ClientAddr] # None

\* the clients in active_clients
Clients == {a \in Addrs : active_clients[a] # NoClient}

\* C22 as stated: one timeout task per client at every moment.  Every
\* client in active_clients has exactly one timeout task that sleeps,
\* neither done nor cancelled.
C22_ExactlyOneTimeout ==
    \A a \in Clients : active_clients[a].sleeping = 1

\* C22 as amended: at most one timeout task per client.  A client in
\* active_clients has no timeout task that sleeps or one, and it is the
\* task of the handle it holds; after a send to the client returned Ok it
\* has one, and after a packet of it was handled with no reply sent it has
\* none.
C22_AtMostOneTimeout ==
    /\ \A a \in Clients :
         /\ active_clients[a].sleeping \in {0, 1}
         /\ active_clients[a].sleeping = 1 <=> active_clients[a].timeout = "armed"
    /\ \A a \in DOMAIN dobs.sends \cap Clients :
         /\ dobs.sends[a] = "ok" => active_clients[a].sleeping = 1
         /\ (dobs.event.e = "ClientPacket" /\ dobs.sends[a] # "ok")
                => active_clients[a].sleeping = 0

\* a reply was sent to a client whose timeout task slept, by the main
\* loop: the old task was cancelled and the new one sleeps
C22_Witness ==
    /\ dobs.event.e \in {"InputEvent", "NewDevice", "RemoveDevice"}
    /\ \E a \in DOMAIN dobs.sends \cap Clients :
         /\ dobs.sends[a] = "ok"
         /\ dobs.before[a].timeout = "armed"
         /\ active_clients[a].sleeping = 1

\* client.send of msg was just called by the client daemon
DClientSent(msg) ==
    /\ obs.who = "client"
    /\ obs.op = "send"
    /\ obs.buf = serialize(msg)

\* C23: the liveness state machine of the client.  In every step of run:
\* a receive timeout with pong_pending clear comes after 1000 ms, sets
\* pong_pending and sends one Ping; a receive timeout with pong_pending
\* set comes after 200 ms and returns "Connection timed out", sending
\* nothing; a Ping is sent in no other step, so none while one is
\* pending; and that error is returned only by the second of two receive
\* timeouts in a row, 1200 ms after the last packet or the start of the
\* loop.
C23_ClientLiveness ==
    [][/\ (run.pc = "loop" /\ run'.timeouts = run.timeouts + 1
              /\ ~run.pong_pending)
           => /\ run'.waited = run.waited + IdleWait
              /\ run'.pong_pending
              /\ run'.pc = "loop"
              /\ DClientSent(ClientMessage_Ping)'
              /\ Len(obs'.sent) = 1
       /\ (run.pc = "loop" /\ run'.timeouts = run.timeouts + 1
              /\ run.pong_pending)
           => /\ run'.waited = run.waited + PongWait
              /\ run'.pc = "ended"
              /\ run'.err = "Connection timed out"
              /\ UNCHANGED <<obs, toServer, seen>>
       /\ (DClientSent(ClientMessage_Ping)' /\ obs' # obs)
           => /\ ~run.pong_pending
              /\ run'.timeouts = run.timeouts + 1
       /\ (run'.err = "Connection timed out" /\ run.err # run'.err)
           => /\ run.pc = "loop"
              /\ run.timeouts = 1
              /\ run'.timeouts = 2
              /\ run'.waited = IdleWait + PongWait
      ]_vars

\* run returned "Connection timed out" after a packet had been handled
\* and a Ping had been sent
C23_Witness ==
    /\ run.pc = "ended"
    /\ run.err = "Connection timed out"
    /\ run.timeouts = 2
    /\ cdevices # <<>>

\* a Timeout(a) waits in the channel of the main loop or is being handled
TimeoutSent(a) ==
    \/ \E x \in DOMAIN device_rx :
         device_rx[x].c = "Timeout" /\ device_rx[x].addr = a
    \/ mainTask.pc = "remove" /\ mainTask.addr = a

\* the client is in its loop on the session it made, and the server has
\* that session, both of its tasks run, and no timeout of the client has
\* fired
Connected ==
    /\ run.pc = "loop"
    /\ auth_states[ClientAddr].st = "Completed"
    /\ hs[ClientAddr].closed = "no"
    /\ recvTask # "ended"
    /\ ServerRuns
    /\ ~TimeoutSent(ClientAddr)
    /\ active_clients[ClientAddr] # NoClient
           => active_clients[ClientAddr].timeout # "fired"

\* a message of the client is on its way to the server or in its hands
ToServerOwed == toServer # <<>> \/ recvTask = "handle"

\* the reply to a message of the client is still to reach the client
ReplyOwed == ToServerOwed \/ toClient # <<>>

\* the KeepAlive that follows a message of the server is still to reach
\* the server
KeepAliveOwed == toClient # <<>> \/ run.keepalive \/ ToServerOwed

\* C24: a client of a reachable, idle server stays connected.  While the
\* client is connected, the server answers every Ping it handles with a
\* Pong that is sent; the receive timeout of the client elapses with a
\* Ping pending only when the Pong is late (the Ping or its Pong has not
\* arrived), and the timeout task of the client fires at the server only
\* when the KeepAlive is late (the message that armed it has not reached
\* the client, or the KeepAlive for it has not reached the server).  So
\* with Pongs and KeepAlives in time the client does not return
\* "Connection timed out" and the server does not evict it.
C24_StaysConnected ==
    [][/\ (Connected' /\ dobs'.event.e = "ClientPacket"
              /\ dobs'.event.msg.t = "Ping")
           => /\ dobs'.replies[ClientAddr] = Some(ServerMessage_Pong)
              /\ dobs'.sends[ClientAddr] = "ok"
              /\ toClient' # <<>>
       /\ (Connected /\ run'.err = "Connection timed out")
           => ReplyOwed
       /\ (Connected /\ TimeoutSent(ClientAddr)')
           => KeepAliveOwed
      ]_vars

\* the client pinged, got the Pong and sent its KeepAlive, the server
\* handled it, and the client is connected with nothing on its way
C24_Witness ==
    /\ Connected
    /\ dobs.event.e = "ClientPacket"
    /\ dobs.event.msg.t = "KeepAlive"
    /\ srvSends >= 2
    /\ ~run.pong_pending
    /\ ~ReplyOwed
    /\ ~KeepAliveOwed
    /\ active_clients[ClientAddr].timeout = "none"

\* C25: the round trip of the codec of bit sets.  For every bit set,
\* deserialize of what serialize made returns the bit set, of the same
\* length and with the same bits on; the byte array serialize makes has
\* a length that is a multiple of 4; and deserialize returns an error
\* for a byte array whose length is no multiple of 4.
C25_BitsetRoundTrip ==
    /\ codec.pc = "serialized" => Len(codec.bytes) % 4 = 0
    /\ codec.pc = "round trip"
           => /\ codec.out.res = "ok"
              /\ codec.out.val.length = codec.v.length
              /\ codec.out.val = codec.v
    /\ (codec.pc = "read" /\ Len(codec.bytes) % 4 # 0)
           => codec.out.res # "ok"

\* C26: short payloads are rejected and abort nothing.  A datagram of
\* fewer than 24 bytes from an address that holds Completed makes recv of
\* the server return an error and leaves the entry as it was; one that
\* reaches a connected client makes recv of the client return an error
\* and leaves its session keys; and no call of recv panics.
C26_ShortPayloadRejected ==
    /\ (ServerRecvOn("Completed") /\ PLen(obs.buf) < NONCE)
           => /\ obs.res = "err"
              /\ auth_states[obs.addr] = obs.was
    /\ (/\ obs.who = "client"
        /\ obs.op = "recv"
        /\ session_keys # None
        /\ PLen(obs.buf) < NONCE)
           => /\ obs.res \notin {"ok", "panic"}
              /\ cliPc = "returned"
    /\ obs.op = "recv" => obs.res # "panic"
    /\ ~srvDead
    /\ cliPc # "dead"

\* the timeout task of the client at a sleeps: a send to it returned Ok
\* and no packet of it was handled since
TimeoutArmedFor(a) ==
    /\ active_clients[a] # NoClient
    /\ active_clients[a].timeout = "armed"

\* the main loop handled Timeout(a): the client is out of active_clients
Evicted(a) ==
    /\ dobs.event.e = "Timeout"
    /\ dobs.addr = a
    /\ active_clients[a] = NoClient

\* a packet of the client at a was handled by the receive task
PacketHandled(a) ==
    /\ dobs.event.e = "ClientPacket"
    /\ dobs.addr = a

\* C27: a client that went silent is evicted.  Once a send to a client
\* returned Ok and its timeout is armed, either a packet of the client is
\* handled or the timeout fires and the main loop handles Timeout(addr):
\* it closes the auth state of the address and then removes the client
\* from active_clients.
C27_SilentClientEvicted ==
    /\ [][(mainTask'.pc = "remove" /\ mainTask.pc # "remove")
             => auth_states'[mainTask'.addr] = Vacant]_vars
    /\ \A a \in Addrs :
         TimeoutArmedFor(a) ~> (Evicted(a) \/ PacketHandled(a))

\* the main loop removed a client whose timeout had fired with no packet
\* of it handled since, the address holds no auth state, and the loop
\* goes on
C27_Witness ==
    /\ Evicted(ClientAddr)
    /\ dobs.before[ClientAddr].timeout = "fired"
    /\ auth_states[ClientAddr] = Vacant
    /\ mainTask = MainLoop

\* the keep-alive tasks of the client process that sleep
KeepAlivePending == (IF run.keepalive THEN 1 ELSE 0) + Len(run.orphans)

\* C28: the client has at most one pending keep-alive task at any moment,
\* so at most one KeepAlive is sent per received packet and none while a
\* newer packet's task is pending
C28_OneKeepAlive == KeepAlivePending <= 1

\* the lock task t waits for where it is, or "none"
Wants(t) ==
    IF t = "recv"
    THEN CASE locks.recv = "lock_clients" -> "active_clients"
           [] locks.recv = "lock_devices" -> "devices"
           [] OTHER -> "none"
    ELSE CASE locks.main \in {"remove", "len", "insert"} -> "devices"
           [] locks.main \in {"timeout", "broadcast"} -> "active_clients"
           [] locks.main = "next" /\ locks.left > 0 -> "devices"
           [] OTHER -> "none"

\* t waits for a lock u holds
WaitsFor(t, u) == Wants(t) # "none" /\ Holds(u, Wants(t))

\* C29: lock order.  Every task that holds the guards of both
\* active_clients and devices took active_clients first, and the receive
\* task and the main loop never wait for each other, or for themselves, on
\* these two locks
C29_LockOrder ==
    /\ \A t \in LockTasks :
         locks.held[t] \in {<<>>, <<"active_clients">>, <<"devices">>,
                            <<"active_clients", "devices">>}
    /\ \A t, u \in LockTasks : ~(WaitsFor(t, u) /\ WaitsFor(u, t))

\* the receive task holds both locks and the main loop waits for one of
\* them; at another time the main loop holds both
C29_Witness ==
    /\ locks.held["recv"] = <<"active_clients", "devices">>
    /\ WaitsFor("main", "recv")

\* t is suspended on the send of a reply to a client
AtSend(t) == IF t = "recv" THEN locks.recv = "send" ELSE locks.main = "send"

\* C30: no task holds both the active_clients lock and the devices lock
\* while it is suspended on the socket send to a client
C30_NoLocksAcrossSend ==
    \A t \in LockTasks :
        AtSend(t) => ~(Holds(t, "active_clients") /\ Holds(t, "devices"))

\* t is between the handling of an event for a client and the end of the
\* send of its reply
InHandling(t) ==
    IF t = "recv" THEN locks.recv \in {"handle", "send"}
    ELSE locks.main \in {"handle", "send"}

MainStep == mainTask' # mainTask

\* the step calls the server: recv, send or close
ServerCalled == obs' # obs /\ obs'.who = "server"

\* C32 as stated: the auth states are read and modified by the receive
\* task alone; no step of the main loop changes them or calls the server
C32_OnlyReceiveTask ==
    [][MainStep => auth_states' = auth_states /\ ~ServerCalled]_vars

\* C32, amended: the auth states are made and moved forward by the receive
\* task alone, in server.recv; the main loop touches them in close on
\* Timeout, which removes the entry of the address and no other, also
\* while the receive task is inside recv, and in send, which reads them
\* and changes nothing
C32_AuthStateAccess ==
    [][/\ (MainStep /\ ServerCalled)
           => \/ /\ obs'.op = "close"
                 /\ mainTask'.pc = "remove"
                 /\ auth_states' = [auth_states EXCEPT
                                       ![mainTask'.addr] = Vacant]
              \/ /\ obs'.op = "send"
                 /\ auth_states' = auth_states
       /\ (MainStep /\ ~ServerCalled) => auth_states' = auth_states
       /\ (~MainStep /\ auth_states' # auth_states)
           => /\ recvTask = "recv"
              /\ ServerCalled
              /\ obs'.op = "recv"
       /\ (ServerCalled /\ obs'.op = "send") => auth_states' = auth_states
      ]_vars

\* the main loop has closed a Completed address while the receive task is
\* inside recv
C32_Witness ==
    /\ obs.op = "close"
    /\ obs.was.st = "Completed"
    /\ auth_states[obs.addr] = Vacant
    /\ mainTask.pc = "remove"
    /\ recvTask = "recv"

\* the main loop takes the control message c from device_rx
MainTaking(c) ==
    /\ mainTask.pc = "loop"
    /\ mainTask' # mainTask
    /\ Head(device_rx).c = c

\* C33: device ids do not collide.  Whenever the main loop registers a
\* hot-plugged device, the id it assigns, the size of the registry, is no
\* key of the registry, the insert succeeds and every live device stays
\* as it was; whenever it removes a device, the id is a key of the
\* registry
C33_IdsDoNotCollide ==
    [][/\ MainTaking("MonitorNewDevice")
           => /\ Cardinality(DOMAIN devices) \notin DOMAIN devices
              /\ mainTask'.pc = "broadcast"
              /\ \A id \in DOMAIN devices : devices'[id] = devices[id]
       /\ MainTaking("RemoveDevice")
           => /\ Head(device_rx).id \in DOMAIN devices
              /\ mainTask'.pc = "broadcast"
      ]_vars

\* what handle_packet compares of an InputDevice: name, vendor, product,
\* version and the three bit sets cap, key_bits, rel_bits
Descriptor(dev) ==
    <<dev.name, dev.vendor, dev.product, dev.version, dev.cap, dev.key_bits,
      dev.rel_bits>>

\* C34: client handling of Sync(updates).  After handle_packet succeeded on
\* a Sync, for every Update(state) entry the client holds a device under
\* the id whose descriptor is that of state, created if and only if none
\* was held or the descriptor of the held one differed, and the held one
\* kept as it was otherwise; for every Drop entry the id is absent; ids
\* the Sync does not name are kept; the same Sync a second time creates
\* and destroys nothing.  An Event for an id that is not held writes to no
\* device and changes nothing.
C34_SyncApplied ==
    dobs.event.e = "ServerPacket" =>
        /\ dobs.event.pkt.t = "Sync" =>
            /\ \A id \in DOMAIN dobs.event.pkt.updates :
                 IF dobs.event.pkt.updates[id].u = "Update"
                 THEN /\ id \in DOMAIN cdevices
                      /\ Descriptor(cdevices[id])
                             = Descriptor(dobs.event.pkt.updates[id].dev)
                      /\ id \in dobs.event.created
                             <=> \/ id \notin DOMAIN dobs.before
                                 \/ Descriptor(dobs.before[id]) #
                                      Descriptor(dobs.event.pkt.updates[id].dev)
                      /\ id \in dobs.event.destroyed
                             <=> /\ id \in DOMAIN dobs.before
                                 /\ id \in dobs.event.created
                      /\ id \notin dobs.event.created
                             => cdevices[id] = dobs.before[id]
                 ELSE id \notin DOMAIN cdevices
            /\ \A id \in DOMAIN dobs.before \ DOMAIN dobs.event.pkt.updates :
                 id \in DOMAIN cdevices /\ cdevices[id] = dobs.before[id]
            /\ dobs.event.again
                   => /\ dobs.event.created = {}
                      /\ dobs.event.destroyed = {}
                      /\ cdevices = dobs.before
        /\ (dobs.event.pkt.t = "Event"
                /\ dobs.event.pkt.id \notin DOMAIN dobs.before)
               => /\ dobs.event.written = {}
                  /\ cdevices = dobs.before

\* a Sync was handled a second time that updates a device to a state
\* with another version and has a Drop entry
C34_Witness ==
    /\ dobs.event.e = "ServerPacket"
    /\ dobs.event.again
    /\ dobs.event.pkt.t = "Sync"
    /\ \E id \in DOMAIN dobs.event.pkt.updates :
         /\ dobs.event.pkt.updates[id].u = "Update"
         /\ dobs.event.pkt.updates[id].dev.version # Kbd.version
         /\ cdevices[id] = dobs.event.pkt.updates[id].dev
    /\ \E id \in DOMAIN dobs.event.pkt.updates :
         dobs.event.pkt.updates[id].u = "Drop"

\* C35: at most one handshake per address.  A datagram from an address
\* whose entry is Initiated is fed to the coroutine of that entry: no
\* randomness is drawn for a new one, the entry does not stay Initiated,
\* it becomes Completed exactly when the datagram answers the challenge of
\* that coroutine, whatever its first 32 bytes are, with the keys of that
\* coroutine, and is removed otherwise; a repetition of the first packet
\* that made the entry removes it, and nothing is sent.
C35_OneHandshakePerAddress ==
    [][\A a \in Addrs :
          /\ auth_states[a].st = "Initiated"
          /\ obs = NoCall
          /\ obs'.who = "server" /\ obs'.op = "recv" /\ obs'.addr = a
          => /\ srvRand' = srvRand
             /\ obs'.sent = <<>>
             /\ auth_states'[a].st \in {"Completed", "Vacant"}
             /\ auth_states'[a].st = "Completed"
                    <=> ThirdPacketAnswers(auth_states[a].g, obs'.buf)
             /\ auth_states'[a].st = "Completed"
                    => LET keys == server_session_keys(
                                       <<"s", auth_states[a].g.loc.j>>,
                                       auth_states[a].g.loc.client_kx_pk)
                       IN  auth_states'[a] = Completed(keys.rx, keys.tx)
             /\ obs'.buf = hs[a].first => auth_states'[a].st = "Vacant"]_vars

\* a well-formed first packet with the key and the key-exchange key of
\* the handshake in progress came from an address that held Initiated,
\* and the entry is gone
C35_Witness ==
    /\ ServerRecvOn("Initiated")
    /\ PLen(obs.buf) = FirstPacketLen
    /\ FirstPacketAccepted(obs.buf)
    /\ FromSlice(Slice(obs.buf, 0, BOXPK)) = obs.was.g.loc.client_pk
    /\ FromSlice(Slice(obs.buf, BOXPK, BOXPK + KXPK)) = obs.was.g.loc.client_kx_pk
    /\ auth_states[obs.addr].st = "Vacant"
    /\ hs[obs.addr].failed

\* C36: the handling of Timeout never meets a missing client.  When the
\* main loop has taken Timeout(addr) and comes to remove the client,
\* active_clients contains addr and the timeout handle of that client is
\* set, so that neither unwrap() fails.
C36_TimeoutFindsClient ==
    mainTask.pc = "remove"
        => /\ active_clients[mainTask.addr] # NoClient
           /\ active_clients[mainTask.addr].timeout # "none"

\* C37: every address in active_clients has a Completed entry in the
\* CDGramServer: a client is created only for an address a payload of
\* which was just decrypted, and none is created or left for an address
\* whose entry the handling of Timeout closed.  The moment between close
\* and the removal of the client, inside the handling of Timeout, is left
\* out.
C37_ActiveClientsCompleted ==
    \A a \in Addrs :
        /\ active_clients[a] # NoClient
        /\ ~(mainTask.pc = "remove" /\ mainTask.addr = a)
        => auth_states[a].st = "Completed"

\* C38: synced_devices of a client changes only when a Sync of that
\* client is handled.  The handling of NewDevice, RemoveDevice,
\* InputEvent, KeepAlive and Ping leaves it as it was, so a removed id
\* stays in it; and when a hot-plugged device is registered, which is
\* after the last Sync of every client there is, the input of the new
\* device gets no reply for any of them.
C38_SyncedOnlyBySync ==
    [][/\ \A a \in Addrs :
            /\ active_clients[a] # NoClient
            /\ active_clients'[a] # NoClient
            /\ active_clients'[a].synced_devices
                   # active_clients[a].synced_devices
            => /\ dobs'.event.e = "ClientPacket"
               /\ dobs'.event.msg.t = "Sync"
               /\ dobs'.addr = a
       /\ \A id \in DOMAIN devices' \ DOMAIN devices :
          \A a \in Addrs :
              active_clients'[a] # NoClient
                  => InputEventReply(active_clients'[a], id, "ev") = None]_vars

\* C39: the entry of an address only moves forward.  An address without
\* an entry stays so or gets Initiated; Initiated stays, becomes Completed
\* or is removed; a Completed entry keeps its keys until it is removed,
\* which only close does, and never becomes Initiated.  A well-formed
\* first packet from a Completed address is read as a payload.
C39_AuthStateForward ==
    [][\A a \in Addrs :
          /\ auth_states[a].st = "Vacant"
                 => auth_states'[a].st \in {"Vacant", "Initiated"}
          /\ auth_states[a].st = "Completed"
                 => \/ auth_states'[a] = auth_states[a]
                    \/ /\ auth_states'[a] = Vacant
                       /\ obs'.op = "close"
                       /\ obs'.addr = a
          /\ (/\ auth_states[a].st = "Completed"
              /\ obs = NoCall
              /\ obs'.who = "server" /\ obs'.op = "recv" /\ obs'.addr = a)
                 => /\ auth_states' = auth_states
                    /\ srvRand' = srvRand
                    /\ obs'.sent = <<>>
                    /\ obs'.res \in {"ok", "err", "panic"}]_vars

\* a first packet of the right length with an authorized key came from an
\* address whose entry was Completed, and the entry is as it was
C39_Witness ==
    /\ ServerRecvOn("Completed")
    /\ PLen(obs.buf) = FirstPacketLen
    /\ FirstPacketAccepted(obs.buf)
    /\ auth_states[obs.addr] = obs.was
    /\ obs.res = "err"

\* C40: the server resumes only a coroutine that was started and has not
\* returned.  The generator of every Initiated entry was started, is
\* suspended at the yield that awaits the third packet and holds no value;
\* a turn of recv on a datagram from an address without a Completed entry
\* never panics (start() not called, an absent yield, a future polled
\* after it returned), and leaves the entry Initiated only with the second
\* packet sent.
C40_LiveCoroutine ==
    /\ \A a \in Addrs :
           auth_states[a].st = "Initiated"
               => /\ auth_states[a].g.future = "Future"
                  /\ auth_states[a].g.pc = "await3"
                  /\ auth_states[a].g.cell = CellNone
    /\ (ServerRecvOn("Vacant") \/ ServerRecvOn("Initiated"))
           => /\ obs.res = "continue"
              /\ auth_states[obs.addr].st = "Initiated"
                     => obs.was.st = "Vacant" /\ Len(obs.sent) = 1

\* a first packet from an address whose last handshake failed on its
\* third packet started a handshake: the coroutine that returned is gone
\* and the entry holds a new one
C40_Witness ==
    /\ ServerRecvOn("Vacant")
    /\ hs[obs.addr].failed
    /\ auth_states[obs.addr].st = "Initiated"
    /\ auth_states[obs.addr].g.pc = "await3"

====
